---------------------------- MODULE Spec2Model ----------------------------
(***************************************************************************)
(* TechCareer-Analyzer: the analytics/scoring engine.                      *)
(*                                                                         *)
(* Conventions of the model                                                *)
(*   - strings are TLA+ strings; Python's `in`, lower() are the operators   *)
(*     Contains and Lower below, computed character by character;          *)
(*   - Optional[str] is a record [some, val]; None is NoneStr;             *)
(*   - years of experience are counted in half-years (h = 2 * years), so    *)
(*     1 + 0.05*years is (40 + h)/40 and |a - b|/10 years is |ha - hb|/20;  *)
(*   - money is counted in cents, so round(x, 2) is rounding to an integer; *)
(*     percentages are counted in tenths, multipliers in hundredths;        *)
(*   - arithmetic is exact where the code uses binary floating point, and   *)
(*     round() rounds the exact value, ties to even: at an exact tie the     *)
(*     code's rounding error may decide otherwise, so the properties below   *)
(*     allow either neighbour at a tie;                                      *)
(*   - a match score is the exact fraction [num, den].                      *)
(***************************************************************************)
EXTENDS Integers, Sequences, FiniteSets, TLC

VARIABLES
    store,   \* the jobs table: a sequence of Job rows in scan order
    op,      \* the service operation in flight or just finished
    req,     \* its arguments
    resp     \* its return value

vars == <<store, op, req, resp>>

---------------------------------------------------------------------------
(* Bounds of the model *)

MaxSkills == 2        \* longest profile skill list
MaxHalfYears == 42    \* largest experience_years, in half-years (21 years)

---------------------------------------------------------------------------
(* Python values *)

NoneStr == [some |-> FALSE, val |-> ""]
Some(s) == [some |-> TRUE, val |-> s]

\* `if location:` -- None and "" are both falsy
Truthy(o) == o.some /\ o.val # ""

Min(a, b) == IF a <= b THEN a ELSE b
Max(a, b) == IF a >= b THEN a ELSE b
Abs(a) == IF a >= 0 THEN a ELSE -a

\* str.lower() of one ASCII character
LowerChar(c) ==
    CASE c = "A" -> "a" [] c = "B" -> "b" [] c = "C" -> "c" [] c = "D" -> "d"
      [] c = "E" -> "e" [] c = "F" -> "f" [] c = "G" -> "g" [] c = "H" -> "h"
      [] c = "I" -> "i" [] c = "J" -> "j" [] c = "K" -> "k" [] c = "L" -> "l"
      [] c = "M" -> "m" [] c = "N" -> "n" [] c = "O" -> "o" [] c = "P" -> "p"
      [] c = "Q" -> "q" [] c = "R" -> "r" [] c = "S" -> "s" [] c = "T" -> "t"
      [] c = "U" -> "u" [] c = "V" -> "v" [] c = "W" -> "w" [] c = "X" -> "x"
      [] c = "Y" -> "y" [] c = "Z" -> "z" [] OTHER -> c

\* str.lower()
RECURSIVE Lower(_)
Lower(s) ==
    IF Len(s) = 0 THEN ""
    ELSE LowerChar(SubSeq(s, 1, 1)) \o Lower(SubSeq(s, 2, Len(s)))

\* Python's `k in s` on strings
Contains(s, k) ==
    \E i \in 1..(Len(s) - Len(k) + 1) : SubSeq(s, i, i + Len(k) - 1) = k

\* round(n/d) for n >= 0, d > 0, ties to even (Python's round)
RoundDiv(n, d) ==
    LET q == n \div d
        r == n % d
    IN  IF 2 * r < d THEN q
        ELSE IF 2 * r > d THEN q + 1
        ELSE IF q % 2 = 0 THEN q ELSE q + 1

---------------------------------------------------------------------------
(* ml/inference/salary_predictor.py *)

\* self.baseline_salaries, in definition order (dollars)
baseline_salaries ==
    << [key |-> "software engineer",         val |-> 110000],
       [key |-> "senior software engineer",  val |-> 150000],
       [key |-> "data scientist",            val |-> 130000],
       [key |-> "machine learning engineer", val |-> 140000],
       [key |-> "frontend developer",        val |-> 105000],
       [key |-> "backend developer",         val |-> 115000],
       [key |-> "full stack developer",      val |-> 120000] >>

\* high_value_skills (dollars)
high_value_skills ==
    << [key |-> "Machine Learning", val |-> 15000],
       [key |-> "AWS",              val |-> 10000],
       [key |-> "Kubernetes",       val |-> 12000],
       [key |-> "React",            val |-> 8000],
       [key |-> "Python",           val |-> 5000] >>

\* location_multipliers of predict, in definition order (hundredths)
location_multipliers ==
    << [key |-> "san francisco", val |-> 135],
       [key |-> "new york",      val |-> 130],
       [key |-> "seattle",       val |-> 125],
       [key |-> "remote",        val |-> 100] >>

\* base_salary = 100000 before the loop
DefaultBaseSalary == 100000

\* the table loop `for key, val in table.items(): if key in text: ...; break`
\* from entry i on: the value of the first entry whose key is in text
RECURSIVE FirstMatchFrom(_, _, _, _)
FirstMatchFrom(table, text, i, default) ==
    IF i > Len(table) THEN default
    ELSE IF Contains(text, table[i].key) THEN table[i].val
    ELSE FirstMatchFrom(table, text, i + 1, default)

\* the same loop without its break: the last matching entry wins
RECURSIVE LastMatchFrom(_, _, _, _)
LastMatchFrom(table, text, i, default) ==
    IF i > Len(table) THEN default
    ELSE IF Contains(text, table[i].key)
         THEN LastMatchFrom(table, text, i + 1, table[i].val)
         ELSE LastMatchFrom(table, text, i + 1, default)

BaseSalaryNoBreak(role) ==
    LastMatchFrom(baseline_salaries, Lower(role), 1, DefaultBaseSalary)

\* predict, lines 28-34
BaseSalary(role) ==
    FirstMatchFrom(baseline_salaries, Lower(role), 1, DefaultBaseSalary)

ExperienceMultiplierNoClamp(h) == 40 + h

\* predict, lines 37-38: min(1 + years * 0.05, 2.0), in fortieths
ExperienceMultiplier(h) == Min(40 + h, 80)

\* high_value_skills.get(skill, 0)
SkillBonusOf(skill) ==
    IF \E i \in 1..Len(high_value_skills) : high_value_skills[i].key = skill
    THEN high_value_skills[CHOOSE i \in 1..Len(high_value_skills) :
                               high_value_skills[i].key = skill].val
    ELSE 0

\* predict, line 51: sum(high_value_skills.get(skill, 0) for skill in skills)
RECURSIVE SkillBonus(_)
SkillBonus(skills) ==
    IF skills = <<>> THEN 0
    ELSE SkillBonusOf(Head(skills)) + SkillBonus(Tail(skills))

\* predict, lines 62-67, in hundredths
LocationMultiplier(location) ==
    IF Truthy(location)
    THEN FirstMatchFrom(location_multipliers, Lower(location.val), 1, 100)
    ELSE 100

\* predict with the skill bonus added after the location multiplier
PredictBonusAfterLocation(skills, h, role, location) ==
    RoundDiv(BaseSalary(role) * ExperienceMultiplier(h) * LocationMultiplier(location)
                 + 4000 * SkillBonus(skills), 40)

\* SalaryPredictor.predict, in cents:
\*   round((base * mult + bonus) * location, 2)
Predict(skills, h, role, location) ==
    RoundDiv((BaseSalary(role) * ExperienceMultiplier(h) + 40 * SkillBonus(skills))
                 * LocationMultiplier(location), 40)

---------------------------------------------------------------------------
(* Inputs of the predictor *)

RECURSIVE SeqsUpTo(_, _)
SeqsUpTo(S, n) ==
    IF n = 0 THEN {<<>>}
    ELSE LET shorter == SeqsUpTo(S, n - 1)
         IN  shorter \cup {Append(q, x) : q \in shorter, x \in S}

PredictRequests ==
    LET PredictLocations ==
            { NoneStr, Some(""), Some("Seattle"), Some("Seattle, WA"),
              Some("Remote (New York)"), Some("Berlin") }
    IN  LET PredictRoles ==
                { "Software Engineer", "Senior Software Engineer", "Data Scientist",
                  "DevOps Engineer", "Backend Developer / Frontend Developer", "",
                  "Staff / SENIOR SOFTWARE ENGINEER II" }
        IN  LET PredictSkills == {"Python", "AWS", "Go"}
            IN  [ skills : SeqsUpTo(PredictSkills, MaxSkills),
                  experience_years : 0..MaxHalfYears,
                  role : PredictRoles,
                  location : PredictLocations ]

\* a caller awaits predictor.predict(...)
InitPredict ==
    /\ store = <<>>
    /\ op = "call_predict"
    /\ req \in PredictRequests
    /\ resp = 0

\* SalaryPredictor.predict runs and returns
PredictReturn ==
    /\ op = "call_predict"
    /\ op' = "predict"
    /\ resp' = Predict(req.skills, req.experience_years, req.role, req.location)
    /\ UNCHANGED <<store, req>>

SpecPredict == InitPredict /\ [][PredictReturn]_vars

---------------------------------------------------------------------------
(* backend/models/job.py and the record store *)

\* Optional[float]: Job.salary is nullable
NoneNum == [some |-> FALSE, val |-> 0]
SomeNum(v) == [some |-> TRUE, val |-> v]

\* a row of the jobs table, as far as the services read it
Job(title, required_skills, experience_required, salary) ==
    [ title |-> title,
      required_skills |-> required_skills,          \* JSON list
      experience_required |-> experience_required,  \* half-years
      salary |-> salary ]                           \* dollars or None

\* a page of collected postings, in the order of their primary keys
SamplePage ==
    << Job("QA Engineer",               <<>>,                          4,  NoneNum),
       Job("Software Engineer",         <<"Python">>,                  4,  SomeNum(120000)),
       Job("QA Engineer",               <<"Python">>,                  4,  SomeNum(90000)),
       Job("Senior Software Engineer",  <<"Python", "AWS">>,           10, SomeNum(150000)),
       Job("Frontend Developer",        <<"AWS">>,                     4,  NoneNum),
       Job("Backend Developer",         <<"Python", "AWS">>,           4,  SomeNum(115000)),
       Job("Full Stack Developer",      <<"Python", "AWS", "Docker">>, 4,  SomeNum(120000)),
       Job("Data Scientist",            <<"Python">>,                  30, SomeNum(130000)),
       Job("DevOps Engineer",           <<"AWS", "Docker">>,           10, NoneNum),
       Job("ML Engineer",               <<"Python">>,                  10, SomeNum(140000)),
       Job("Data Engineer",             <<"Python", "AWS">>,           10, SomeNum(125000)),
       Job("Site Reliability Engineer", <<"Docker">>,                  30, SomeNum(135000)),
       Job("Product Manager",           <<"Python", "AWS", "Docker">>, 30, NoneNum) >>

---------------------------------------------------------------------------
(* backend/services/career_service.py *)

\* recommended_roles[:10]
TopN == 10

\* set(list)
ToSet(list) == {list[i] : i \in DOMAIN list}

\* an exact fraction
Frac(n, d) == [num |-> n, den |-> d]
FracGE(a, b) == a.num * b.den >= b.num * a.den
FracEq(a, b) == a.num * b.den = b.num * a.den

ExpMatchNoClamp(job, h) == 20 - Abs(job.experience_required - h)

\* lines 71-72: max(0, 1.0 - abs(required - years) / 10.0), in twentieths
ExpMatch(job, h) == Max(0, 20 - Abs(job.experience_required - h))

\* lines 67-74: total_score = match_score * 0.7 + exp_match * 0.3
\* for a job whose skill set is not empty
TotalScore(job, skills, h) ==
    LET job_skills == ToSet(job.required_skills)
        matching_skills == job_skills \cap ToSet(skills)
        m == Cardinality(matching_skills)
        n == Cardinality(job_skills)
    IN  Frac(140 * m + 3 * ExpMatch(job, h) * n, 200 * n)

\* the position of a title in role_scores (0: not in it)
IndexOfRole(role_scores, title) ==
    IF \E k \in DOMAIN role_scores : role_scores[k].role = title
    THEN CHOOSE k \in DOMAIN role_scores : role_scores[k].role = title
    ELSE 0

\* the loop body where every record's score replaces the role's match_score
UpdateRoleOverwrite(role_scores, job, total_score) ==
    LET rs1 == IF IndexOfRole(role_scores, job.title) = 0
               THEN Append(role_scores,
                           [ role |-> job.title,
                             match_score |-> total_score,
                             avg_salary |-> 0,
                             required_skills |-> ToSet(job.required_skills),
                             count |-> 0 ])
               ELSE role_scores
        k == IndexOfRole(rs1, job.title)
    IN  [rs1 EXCEPT ![k].match_score = total_score,
                    ![k].avg_salary = IF job.salary.some /\ job.salary.val # 0
                                      THEN @ + job.salary.val ELSE @,
                    ![k].count = @ + 1]

\* lines 76-87: the entry of job.title is created from the first record of
\* that title; every record adds its salary (if any) and counts 1
UpdateRole(role_scores, job, total_score) ==
    LET rs1 == IF IndexOfRole(role_scores, job.title) = 0
               THEN Append(role_scores,
                           [ role |-> job.title,
                             match_score |-> total_score,
                             avg_salary |-> 0,
                             required_skills |-> ToSet(job.required_skills),
                             count |-> 0 ])
               ELSE role_scores
        k == IndexOfRole(rs1, job.title)
    IN  [rs1 EXCEPT ![k].avg_salary = IF job.salary.some /\ job.salary.val # 0
                                      THEN @ + job.salary.val ELSE @,
                    ![k].count = @ + 1]

\* lines 58-87: for job in jobs, from record i on; role_scores is the dict,
\* kept in insertion order
RECURSIVE ScanJobs(_, _, _, _, _)
ScanJobs(jobs, i, role_scores, skills, h) ==
    IF i > Len(jobs) THEN role_scores
    ELSE IF ToSet(jobs[i].required_skills) = {}
         THEN ScanJobs(jobs, i + 1, role_scores, skills, h)
         ELSE ScanJobs(jobs, i + 1,
                       UpdateRole(role_scores, jobs[i], TotalScore(jobs[i], skills, h)),
                       skills, h)

\* lines 90-94: avg_salary /= count when count > 0 and avg_salary > 0
Averages(role_scores) ==
    [ k \in DOMAIN role_scores |->
        [ role_scores[k] EXCEPT !.avg_salary =
            IF role_scores[k].count > 0 /\ @ > 0
            THEN Frac(@, role_scores[k].count)
            ELSE Frac(0, 1) ] ]

\* an insertion that puts x before the entries of equal score
InsertBeforeEqual(sorted, x) ==
    LET before == {k \in DOMAIN sorted :
                      ~FracGE(x.match_score, sorted[k].match_score)}
        n == Cardinality(before)
    IN  SubSeq(sorted, 1, n) \o <<x>> \o SubSeq(sorted, n + 1, Len(sorted))

\* x goes after every entry whose score is at least its own
InsertByScore(sorted, x) ==
    LET before == {k \in DOMAIN sorted :
                      FracGE(sorted[k].match_score, x.match_score)}
        n == Cardinality(before)
    IN  SubSeq(sorted, 1, n) \o <<x>> \o SubSeq(sorted, n + 1, Len(sorted))

\* line 97: list.sort(key=match_score, reverse=True), a stable sort
RECURSIVE SortByMatchScore(_, _, _)
SortByMatchScore(list, i, sorted) ==
    IF i > Len(list) THEN sorted
    ELSE SortByMatchScore(list, i + 1, InsertByScore(sorted, list[i]))

\* list[:n]
Take(list, n) == SubSeq(list, 1, Min(Len(list), n))

\* CareerService._find_matching_roles
FindMatchingRoles(jobs, skills, h) ==
    Take(SortByMatchScore(Averages(ScanJobs(jobs, 1, <<>>, skills, h)), 1, <<>>),
         TopN)

---------------------------------------------------------------------------
(* The record store and the career service *)

MaxNewJobs == 2      \* postings added after the service started

NoRequest == [skills |-> <<>>, experience_years |-> 0]

\* the number of postings added since the service started
NewCount(jobs) ==
    IF Len(jobs) >= Len(SamplePage) /\ SubSeq(jobs, 1, Len(SamplePage)) = SamplePage
    THEN Len(jobs) - Len(SamplePage)
    ELSE Len(jobs)

\* the jobs table is empty or holds a collected page; no request is in flight
InitCareer ==
    /\ store \in {<<>>, SamplePage}
    /\ op = "idle"
    /\ req = NoRequest
    /\ resp = <<>>

\* the collector adds a posting (db.add, committed by get_db)
AddJob ==
    LET \* the postings a collector run may add
        NewJobs ==
            { Job(t, rs, e, sal) :
                t \in {"Backend Developer", "Data Scientist"},
                rs \in {<<>>, <<"Python">>, <<"AWS", "Python", "AWS">>},
                e \in {4, 30},
                sal \in {NoneNum, SomeNum(90000)} }
    IN  /\ op = "idle"
        /\ NewCount(store) < MaxNewJobs
        /\ \E job \in NewJobs : store' = Append(store, job)
        /\ UNCHANGED <<op, req, resp>>

\* CareerService._find_matching_roles(skills, experience_years) runs to its return
FindMatchingRolesReturn ==
    LET CareerProfiles ==
            [ skills : {<<>>, <<"Python">>, <<"Go", "AWS", "Python">>},
              experience_years : {4, 10} ]
    IN  /\ op = "idle"
        /\ \E profile \in CareerProfiles :
              /\ req' = profile
              /\ resp' = FindMatchingRoles(store, profile.skills, profile.experience_years)
        /\ op' = "find_matching_roles"
        /\ UNCHANGED store

SpecCareer ==
    /\ InitCareer
    /\ [][ \/ AddJob
          \/ FindMatchingRolesReturn ]_vars

---------------------------------------------------------------------------
(* Exact products of a salary and its multipliers: natural numbers as       *)
(* little-endian sequences of base-100 digits, so that dividing by 100^k     *)
(* is dropping k digits                                                      *)

RECURSIVE ToBig(_)
ToBig(n) == IF n = 0 THEN <<>> ELSE <<n % 100>> \o ToBig(n \div 100)

RECURSIVE FromBig(_)
FromBig(b) == IF b = <<>> THEN 0 ELSE Head(b) + 100 * FromBig(Tail(b))

RECURSIVE BigTimes(_, _, _)
BigTimes(b, m, carry) ==
    IF b = <<>> THEN ToBig(carry)
    ELSE LET t == Head(b) * m + carry
         IN  <<t % 100>> \o BigTimes(Tail(b), m, t \div 100)

\* digit i of b (0 beyond its length)
BigDigit(b, i) == IF i <= Len(b) THEN b[i] ELSE 0

\* b / 100^k as [whole, frac]: frac in units of 100^-k
BigSplit(b, k) ==
    [ whole |-> FromBig(SubSeq(b, k + 1, Len(b))),
      frac  |-> FromBig([i \in 1..k |-> BigDigit(b, i)]) ]

\* round(whole + frac/unit), ties to even
RoundSplit(x, unit) ==
    IF 2 * x.frac < unit THEN x.whole
    ELSE IF 2 * x.frac > unit THEN x.whole + 1
    ELSE IF x.whole % 2 = 0 THEN x.whole ELSE x.whole + 1

---------------------------------------------------------------------------
(* backend/services/salary_service.py *)

\* self.location_multipliers (hundredths); looked up by exact key
service_location_multipliers ==
    << [key |-> "San Francisco", val |-> 135],
       [key |-> "New York",      val |-> 130],
       [key |-> "Seattle",       val |-> 125],
       [key |-> "Austin",        val |-> 110],
       [key |-> "Remote",        val |-> 100],
       [key |-> "Denver",        val |-> 105],
       [key |-> "Chicago",       val |-> 108] >>

\* size_multipliers (hundredths)
size_multipliers ==
    << [key |-> "startup",    val |-> 90],
       [key |-> "small",      val |-> 95],
       [key |-> "medium",     val |-> 100],
       [key |-> "large",      val |-> 110],
       [key |-> "enterprise", val |-> 115] >>

\* edu_multipliers, in definition order (hundredths)
edu_multipliers ==
    << [key |-> "bachelor", val |-> 100],
       [key |-> "master",   val |-> 110],
       [key |-> "phd",      val |-> 120],
       [key |-> "bootcamp", val |-> 95] >>

\* dict.get(key, default)
DictGet(table, key, default) ==
    IF \E i \in DOMAIN table : table[i].key = key
    THEN table[CHOOSE i \in DOMAIN table : table[i].key = key].val
    ELSE default

\* line 44: self.location_multipliers.get(location, 1.0)
ServiceLocationMultiplier(location) ==
    DictGet(service_location_multipliers, location, 100)

\* lines 48-50 and _get_company_size_adjustment
CompanySizeAdjustment(company_size) ==
    IF Truthy(company_size)
    THEN DictGet(size_multipliers, Lower(company_size.val), 100)
    ELSE 100

\* lines 53-55 and _get_education_adjustment
EducationAdjustment(education) ==
    IF Truthy(education)
    THEN FirstMatchFrom(edu_multipliers, Lower(education.val), 1, 100)
    ELSE 100

\* lines 36-55: adjusted_salary, in millionths of a cent
AdjustedBig(skills, h, role, location, company_size, education) ==
    LET base_salary == Predict(skills, h, role, Some(location))
        b1 == BigTimes(ToBig(base_salary), ServiceLocationMultiplier(location), 0)
        b2 == BigTimes(b1, CompanySizeAdjustment(company_size), 0)
    IN  BigTimes(b2, EducationAdjustment(education), 0)

\* adjusted_salary in cents, as [whole, frac] with frac in millionths
AdjustedSalary(skills, h, role, location, company_size, education) ==
    BigSplit(AdjustedBig(skills, h, role, location, company_size, education), 3)

\* SQL LIKE on lower-cased text: % matches any run of characters, _ any one
RECURSIVE LikeMatch(_, _)
LikeMatch(text, pattern) ==
    IF pattern = "" THEN text = ""
    ELSE IF SubSeq(pattern, 1, 1) = "%"
         THEN \/ LikeMatch(text, SubSeq(pattern, 2, Len(pattern)))
              \/ /\ text # ""
                 /\ LikeMatch(SubSeq(text, 2, Len(text)), pattern)
    ELSE /\ text # ""
         /\ \/ SubSeq(pattern, 1, 1) = "_"
            \/ SubSeq(pattern, 1, 1) = SubSeq(text, 1, 1)
         /\ LikeMatch(SubSeq(text, 2, Len(text)), SubSeq(pattern, 2, Len(pattern)))

\* Job.title.ilike(f"%{role}%")
TitleILike(title, role) == LikeMatch(Lower(title), Lower("%" \o role \o "%"))

\* the buckets with >= in place of >
CalculateConfidenceAtLeast(jobs, h, role) ==
    LET similar_jobs ==
            Cardinality({i \in DOMAIN jobs :
                /\ TitleILike(jobs[i].title, role)
                /\ h - 4 <= jobs[i].experience_required
                /\ jobs[i].experience_required <= h + 4})
    IN  IF similar_jobs >= 100 THEN 95
        ELSE IF similar_jobs >= 50 THEN 85
        ELSE IF similar_jobs >= 20 THEN 75
        ELSE 65

\* _calculate_confidence, lines 125-138, in hundredths
CalculateConfidence(jobs, h, role) ==
    LET similar_jobs ==
            Cardinality({i \in DOMAIN jobs :
                /\ TitleILike(jobs[i].title, role)
                /\ h - 4 <= jobs[i].experience_required
                /\ jobs[i].experience_required <= h + 4})
    IN  IF similar_jobs > 100 THEN 95
        ELSE IF similar_jobs > 50 THEN 85
        ELSE IF similar_jobs > 20 THEN 75
        ELSE 65

\* s <= salary: a historical salary s (dollars) against a salary in cents
AtMostSalary(s, salary) == 100 * s <= salary.whole

\* line 164: s < salary
LessThanSalary(s, salary) ==
    \/ 100 * s < salary.whole
    \/ 100 * s = salary.whole /\ salary.frac > 0

\* _calculate_market_percentile, lines 155-166, in tenths of a percent
CalculateMarketPercentile(jobs, salary, role) ==
    LET salaries == {i \in DOMAIN jobs :
                        TitleILike(jobs[i].title, role) /\ jobs[i].salary.some}
        below == {i \in salaries : LessThanSalary(jobs[i].salary.val, salary)}
    IN  IF salaries = {} THEN 500
        ELSE RoundDiv(1000 * Cardinality(below), Cardinality(salaries))

\* _analyze_salary_factors, lines 182-188: the raw weights times 6000, with
\* n = len(skills)
RawFactors(n, h, location, company_size, education) ==
    [ experience   |-> 70 * Min(h, 30),
      skills       |-> 90 * Min(n, 20),
      location     |-> 12 * (ServiceLocationMultiplier(location) - 90),
      company_size |-> IF Truthy(company_size) THEN 600 ELSE 300,
      education    |-> IF Truthy(education) THEN 300 ELSE 0 ]

\* _analyze_salary_factors, lines 191-192: round(v / total * 100, 1), in
\* tenths of a percent
AnalyzeSalaryFactors(n, h, location, company_size, education) ==
    LET FactorNames == {"experience", "skills", "location", "company_size", "education"}
    IN  LET factors == RawFactors(n, h, location, company_size, education)
            total == factors.experience + factors.skills + factors.location
                       + factors.company_size + factors.education
        IN  [k \in FactorNames |-> RoundDiv(1000 * factors[k], total)]

\* SalaryService.predict_salary, lines 36-81
PredictSalary(jobs, skills, h, role, location, company_size, education) ==
    LET adjusted_big ==
            AdjustedBig(skills, h, role, location, company_size, education)
        adjusted_salary == BigSplit(adjusted_big, 3)
    IN  [ predicted_salary |-> RoundSplit(adjusted_salary, 1000000),
          salary_range |->
            [ min |-> RoundSplit(BigSplit(BigTimes(adjusted_big, 85, 0), 4), 100000000),
              max |-> RoundSplit(BigSplit(BigTimes(adjusted_big, 115, 0), 4), 100000000),
              median |-> RoundSplit(adjusted_salary, 1000000) ],
          confidence_score |-> CalculateConfidence(jobs, h, role),
          market_percentile |-> CalculateMarketPercentile(jobs, adjusted_salary, role),
          factors |-> AnalyzeSalaryFactors(Len(skills), h, location,
                                           company_size, education) ]

---------------------------------------------------------------------------
(* The record store and the salary service *)

SalaryRequests ==
    [ skills : {<<>>, <<"Python", "AWS">>},
      experience_years : {6, 44},
      role : {"Software Engineer", "Product Manager"},
      location : {"Seattle", "seattle", "Berlin", "Austin"},
      company_size : {NoneStr, Some("Large"), Some("family")},
      education : {NoneStr, Some("PhD")} ]

\* a salary in whole dollars, or half a cent more
Dollars(d) == [whole |-> 100 * d, frac |-> 0]
PercentileRequests ==
    LET JustAbove(d) == [whole |-> 100 * d, frac |-> 500000]
    IN  [ salary : {Dollars(0), Dollars(90000), Dollars(120000), JustAbove(120000),
                    Dollars(137500), Dollars(200000)},
          role : {"engineer", "Developer", "Software_Engineer", "Product Manager",
                  "Nurse", ""} ]

InitSalary ==
    /\ store \in {<<>>, SamplePage}
    /\ op = "idle"
    /\ req = NoRequest
    /\ resp = <<>>

\* the collector adds a posting (db.add, committed by get_db)
AddSalariedJob ==
    LET \* the postings a collector run may add while salaries are being estimated
        NewSalariedJobs ==
            { Job("Software Engineer", <<"Python">>, 6, SomeNum(137500)),
              Job("Senior software engineer", <<"AWS">>, 10, NoneNum) }
    IN  /\ op = "idle"
        /\ NewCount(store) < MaxNewJobs
        /\ \E job \in NewSalariedJobs : store' = Append(store, job)
        /\ UNCHANGED <<op, req, resp>>

\* SalaryService.predict_salary runs to its return
PredictSalaryReturn ==
    /\ op = "idle"
    /\ \E r \in SalaryRequests :
          /\ req' = r
          /\ resp' = PredictSalary(store, r.skills, r.experience_years, r.role,
                                   r.location, r.company_size, r.education)
    /\ op' = "predict_salary"
    /\ UNCHANGED store

\* SalaryService._calculate_market_percentile(salary, role, location) runs
\* to its return
MarketPercentileReturn ==
    /\ op = "idle"
    /\ \E r \in PercentileRequests :
          /\ req' = r
          /\ resp' = CalculateMarketPercentile(store, r.salary, r.role)
    /\ op' = "calculate_market_percentile"
    /\ UNCHANGED store

SpecSalary ==
    /\ InitSalary
    /\ [][ \/ AddSalariedJob
          \/ PredictSalaryReturn
          \/ MarketPercentileReturn ]_vars

---------------------------------------------------------------------------
(* SalaryService._analyze_salary_factors on its own *)

MaxSkillCount == 21     \* longest skill list given to _analyze_salary_factors
MaxFactorHalfYears == 32    \* largest experience_years there, in half-years

FactorRequests ==
    LET \* a list of n skills
        SkillList(n) == [i \in 1..n |-> "Python"]
    IN  [ skills : {SkillList(n) : n \in 0..MaxSkillCount},
          experience_years : 0..MaxFactorHalfYears,
          location : {"San Francisco", "New York", "Seattle", "Austin", "Remote",
                      "Denver", "Chicago", "Berlin"},
          company_size : {NoneStr, Some("large")},
          education : {NoneStr, Some("phd")} ]

\* predict_salary is about to call self._analyze_salary_factors(...)
InitFactors ==
    /\ store = <<>>
    /\ op = "call_analyze_salary_factors"
    /\ req \in FactorRequests
    /\ resp = <<>>

\* SalaryService._analyze_salary_factors runs and returns
AnalyzeSalaryFactorsReturn ==
    /\ op = "call_analyze_salary_factors"
    /\ op' = "analyze_salary_factors"
    /\ resp' = AnalyzeSalaryFactors(Len(req.skills), req.experience_years,
                                    req.location, req.company_size, req.education)
    /\ UNCHANGED <<store, req>>

SpecFactors == InitFactors /\ [][AnalyzeSalaryFactorsReturn]_vars

---------------------------------------------------------------------------
(* SalaryService._calculate_confidence over a populated jobs table *)

MaxSimilarNew == 2      \* postings added on top of the seeded table

\* n copies of one row
Repeat(job, n) == [i \in 1..n |-> job]

\* seeded tables: k "Data Scientist" postings asking for 3 years, then one
\* asking for 9 years and one posting of another title
SeededJobs(k) ==
    Repeat(Job("Data Scientist", <<"Python">>, 6, SomeNum(130000)), k)
        \o << Job("Data Scientist", <<"Python">>, 18, SomeNum(160000)),
              Job("Nurse", <<>>, 6, NoneNum) >>

InitConfidence ==
    /\ store \in {SeededJobs(k) : k \in {0, 19, 49, 99}}
    /\ op = "idle"
    /\ req = [experience_years |-> 0, role |-> ""]
    /\ resp = 0

\* a posting is added (db.add, committed by get_db)
AddSimilarJob ==
    LET \* postings added later, asking for 1, 5 and 5.5 years
        SimilarNewJobs ==
            { Job("Senior DATA Scientist", <<"AWS">>, 2, NoneNum),
              Job("Data Engineer", <<"AWS">>, 10, SomeNum(120000)),
              Job("Data Analyst", <<>>, 11, NoneNum) }
    IN  /\ op = "idle"
        /\ Cardinality({i \in DOMAIN store : store[i] \in SimilarNewJobs}) < MaxSimilarNew
        /\ \E job \in SimilarNewJobs : store' = Append(store, job)
        /\ UNCHANGED <<op, req, resp>>

\* SalaryService._calculate_confidence(skills, experience_years, role) runs
\* to its return
CalculateConfidenceReturn ==
    /\ op = "idle"
    /\ \E r \in [experience_years : {6, 7}, role : {"data", "Nurse"}] :
          /\ req' = r
          /\ resp' = CalculateConfidence(store, r.experience_years, r.role)
    /\ op' = "calculate_confidence"
    /\ UNCHANGED store

SpecConfidence ==
    /\ InitConfidence
    /\ [][ \/ AddSimilarJob
          \/ CalculateConfidenceReturn ]_vars

---------------------------------------------------------------------------
(* CareerService._analyze_skill_gaps, as analyze_career_path calls it *)

GapRoles == 5       \* analyze_career_path, line 28: recommended_roles[:5]

\* lines 124-132, with < in place of <=
CalculateSkillPriorityStrict(skills) ==
    LET gap_count == Cardinality(skills)
    IN  IF gap_count < 2 THEN "low"
        ELSE IF gap_count < 5 THEN "medium"
        ELSE "high"

\* CareerService._calculate_skill_priority(skills: set)
CalculateSkillPriority(skills) ==
    LET gap_count == Cardinality(skills)
    IN  IF gap_count <= 2 THEN "low"
        ELSE IF gap_count <= 5 THEN "medium"
        ELSE "high"

\* lines 108-120: for role in target_roles, from entry k on; missing_skills
\* is kept as the set it is built from
RECURSIVE AnalyzeSkillGapsFrom(_, _, _, _)
AnalyzeSkillGapsFrom(current_skills, target_roles, k, gaps) ==
    IF k > Len(target_roles) THEN gaps
    ELSE LET role == target_roles[k]
             missing_skills == role.required_skills \ ToSet(current_skills)
         IN  AnalyzeSkillGapsFrom(current_skills, target_roles, k + 1,
                 IF missing_skills # {}
                 THEN Append(gaps, [ role |-> role.role,
                                     missing_skills |-> missing_skills,
                                     gap_count |-> Cardinality(missing_skills),
                                     priority |-> CalculateSkillPriority(missing_skills) ])
                 ELSE gaps)

\* CareerService._analyze_skill_gaps(current_skills, target_roles)
AnalyzeSkillGaps(current_skills, target_roles) ==
    AnalyzeSkillGapsFrom(current_skills, target_roles, 1, <<>>)

\* the sample postings of seed_sample_data (5 to 10 of the 10 sample skills
\* each), followed by postings with shorter skill lists
SeedPostings ==
    << Job("Software Engineer",
           <<"Python", "JavaScript", "React", "Node.js", "AWS">>, 4, SomeNum(120000)),
       Job("QA Engineer", <<"Python">>, 4, SomeNum(90000)),
       Job("Senior Software Engineer",
           <<"Python", "JavaScript", "React", "Node.js", "AWS", "Docker",
             "Kubernetes", "PostgreSQL", "MongoDB", "Machine Learning">>,
           4, SomeNum(160000)),
       Job("Frontend Developer",
           <<"JavaScript", "React", "Node.js", "MongoDB", "Docker", "AWS">>,
           6, SomeNum(105000)),
       Job("Backend Developer",
           <<"Python", "AWS", "Docker", "Kubernetes", "PostgreSQL", "MongoDB",
             "Node.js">>, 10, NoneNum),
       Job("Full Stack Developer",
           <<"Python", "JavaScript", "React", "Node.js", "AWS", "Docker",
             "PostgreSQL", "MongoDB">>, 30, SomeNum(125000)),
       Job("Data Scientist",
           <<"Python", "Machine Learning", "AWS", "Docker", "PostgreSQL">>,
           12, SomeNum(130000)),
       Job("Software Engineer",
           <<"Docker", "Kubernetes", "PostgreSQL", "MongoDB", "Machine Learning",
             "React">>, 4, NoneNum),
       Job("DevOps Engineer",
           <<"AWS", "Docker", "Kubernetes", "Python", "PostgreSQL">>, 16, NoneNum) >>

GapProfiles ==
    [ skills : { <<>>, <<"Rust">>,
                 <<"Python", "JavaScript", "React", "AWS">>,
                 <<"Python", "JavaScript", "React", "Node.js", "AWS">>,
                 <<"Python", "JavaScript", "React", "Node.js", "AWS", "Docker", "MongoDB">>,
                 <<"AWS", "Docker", "Kubernetes", "Python", "PostgreSQL",
                   "Machine Learning">>,
                 <<"Python", "JavaScript", "React", "Node.js", "AWS", "Docker",
                   "Kubernetes", "PostgreSQL", "MongoDB", "Machine Learning", "Go">> },
      experience_years : {4, 10} ]

InitGaps ==
    /\ store = <<>>
    /\ op = "idle"
    /\ req = NoRequest
    /\ resp = <<>>

\* the next sample posting is added
SeedPosting ==
    /\ op = "idle"
    /\ Len(store) < Len(SeedPostings)
    /\ store' = Append(store, SeedPostings[Len(store) + 1])
    /\ UNCHANGED <<op, req, resp>>

\* analyze_career_path, lines 25 and 28: _find_matching_roles, then
\* _analyze_skill_gaps on recommended_roles[:5]; the other fields of the
\* reply are computed after these two and read neither the gaps' inputs
\* again nor the store
AnalyzeSkillGapsReturn ==
    /\ op = "idle"
    /\ \E profile \in GapProfiles :
          LET recommended_roles ==
                  FindMatchingRoles(store, profile.skills, profile.experience_years)
          IN  /\ req' = profile
              /\ resp' = [ recommended_roles |-> recommended_roles,
                           skill_gaps |-> AnalyzeSkillGaps(profile.skills,
                                              Take(recommended_roles, GapRoles)) ]
    /\ op' = "analyze_skill_gaps"
    /\ UNCHANGED store

SpecGaps ==
    /\ InitGaps
    /\ [][ \/ SeedPosting
          \/ AnalyzeSkillGapsReturn ]_vars

---------------------------------------------------------------------------
(* backend/services/skills_service.py *)

SampleLimit == 100      \* _get_role_skills, line 96: .limit(100)

\* the rows whose title matches %role% (Job.title.ilike)
MatchingRows(jobs, role) == {i \in DOMAIN jobs : TitleILike(jobs[i].title, role)}

\* the subsets of M with d elements
RECURSIVE Drops(_, _)
Drops(M, d) ==
    IF d = 0 THEN {{}}
    ELSE UNION {{D \cup {x} : x \in M \ D} : D \in Drops(M, d - 1)}

\* lines 94-96: the query has a LIMIT and no ORDER BY, so of the matching
\* rows it may return any 100 (all of them when there are at most 100)
Samples(rows) == {rows \ D : D \in Drops(rows, Max(0, Cardinality(rows) - SampleLimit))}

\* lines 102-104: skill_counts[skill] after Counter.update(job.required_skills)
\* for every row of the sample: one per place (row, position) of the
\* sampled lists where the skill stands
SkillCount(jobs, sample, skill) ==
    Cardinality(
        {p \in UNION {{<<i, j>> : j \in DOMAIN jobs[i].required_skills} : i \in sample} :
            jobs[p[1]].required_skills[p[2]] = skill})

\* the keys of skill_counts: a Counter keeps them in insertion order, that
\* is by first occurrence
SkillKeys(jobs, sample) ==
    LET keys == UNION {ToSet(jobs[i].required_skills) : i \in sample}
        \* the first row of the sample, in table order, whose list has the
        \* skill, and the first position of the skill in that list
        FirstPlace(skill) ==
            LET i == CHOOSE k \in sample :
                         /\ skill \in ToSet(jobs[k].required_skills)
                         /\ \A m \in sample :
                                m < k => skill \notin ToSet(jobs[m].required_skills)
                j == CHOOSE k \in DOMAIN jobs[i].required_skills :
                         /\ jobs[i].required_skills[k] = skill
                         /\ \A m \in 1..(k - 1) : jobs[i].required_skills[m] # skill
            IN  <<i, j>>
        first == {<<s, FirstPlace(s)>> : s \in keys}
        Before(p, q) == p[1] < q[1] \/ (p[1] = q[1] /\ p[2] < q[2])
        ranked == {<<Cardinality({q \in first : Before(q[2], p[2])}), p[1]>> :
                      p \in first}
    IN  [ n \in 1..Cardinality(keys) |-> (CHOOSE r \in ranked : r[1] = n - 1)[2] ]

\* line 108 with > in place of >=
AtThresholdStrict(count, n) == 5 * count > 3 * n

\* lines 107-108: count >= len(jobs) * 0.6
AtThreshold(count, n) == 5 * count >= 3 * n

\* SkillsService._get_role_skills(role), when the query returns the rows of
\* sample; the reply has no total_jobs_analyzed when no row matches
GetRoleSkills(jobs, sample) ==
    IF sample = {}
    THEN [required |-> <<>>, total_jobs_analyzed |-> NoneNum]
    ELSE [ required |->
               SelectSeq(SkillKeys(jobs, sample),
                         LAMBDA skill :
                             AtThreshold(SkillCount(jobs, sample, skill),
                                         Cardinality(sample))),
           total_jobs_analyzed |-> SomeNum(Cardinality(sample)) ]

\* _estimate_difficulty, lines 168-174
difficulty_map ==
    << [key |-> "HTML", val |-> 1], [key |-> "CSS", val |-> 1],
       [key |-> "Git", val |-> 1],
       [key |-> "JavaScript", val |-> 2], [key |-> "Python", val |-> 2],
       [key |-> "React", val |-> 2],
       [key |-> "TypeScript", val |-> 3], [key |-> "AWS", val |-> 3],
       [key |-> "Docker", val |-> 3],
       [key |-> "Machine Learning", val |-> 4], [key |-> "Kubernetes", val |-> 4],
       [key |-> "Deep Learning", val |-> 5] >>

\* SkillsService._estimate_difficulty(skill)
EstimateDifficulty(skill) == DictGet(difficulty_map, skill, 3)

\* SkillsService._get_skill_demand(skill, role), an exact fraction, when
\* rows are the rows whose title matches %role%: lines 146-159,
\* Job.required_skills.contains([skill]) selecting the rows whose list has
\* the skill
GetSkillDemand(jobs, skill, rows) ==
    LET total_jobs == Cardinality(rows)
        jobs_with_skill ==
            Cardinality({i \in rows : skill \in ToSet(jobs[i].required_skills)})
    IN  IF total_jobs = 0 THEN Frac(50, 1)
        ELSE Frac(Min(100 * jobs_with_skill, 100 * total_jobs), total_jobs)

\* the sort without reverse=True: x goes after every entry whose
\* demand_score is at most its own
InsertByDemandAscending(sorted, x) ==
    LET before == {k \in DOMAIN sorted :
                      FracGE(x.demand_score, sorted[k].demand_score)}
        n == Cardinality(before)
    IN  SubSeq(sorted, 1, n) \o <<x>> \o SubSeq(sorted, n + 1, Len(sorted))

\* x goes after every entry whose demand_score is at least its own
InsertByDemand(sorted, x) ==
    LET before == {k \in DOMAIN sorted :
                      FracGE(sorted[k].demand_score, x.demand_score)}
        n == Cardinality(before)
    IN  SubSeq(sorted, 1, n) \o <<x>> \o SubSeq(sorted, n + 1, Len(sorted))

\* line 136: prioritized.sort(key=demand_score, reverse=True), a stable sort
RECURSIVE SortByDemand(_, _, _)
SortByDemand(list, i, sorted) ==
    IF i > Len(list) THEN sorted
    ELSE SortByDemand(list, i + 1, InsertByDemand(sorted, list[i]))

\* SkillsService._prioritize_gaps(gaps, role), rows being the rows whose
\* title matches %role%
PrioritizeGaps(jobs, gaps, rows) ==
    SortByDemand([ k \in DOMAIN gaps |->
                     [ skill |-> gaps[k],
                       priority |-> "critical",
                       demand_score |-> GetSkillDemand(jobs, gaps[k], rows),
                       difficulty |-> EstimateDifficulty(gaps[k]),
                       estimated_learning_weeks |-> EstimateDifficulty(gaps[k]) * 2 ] ],
                 1, <<>>)

RECURSIVE ToDecimal(_)
ToDecimal(n) ==
    LET \* str(n) of a natural number
        DigitChar(d) ==
            CASE d = 0 -> "0" [] d = 1 -> "1" [] d = 2 -> "2" [] d = 3 -> "3"
              [] d = 4 -> "4" [] d = 5 -> "5" [] d = 6 -> "6" [] d = 7 -> "7"
              [] d = 8 -> "8" [] d = 9 -> "9"
    IN  IF n < 10 THEN DigitChar(n) ELSE ToDecimal(n \div 10) \o DigitChar(n % 10)

\* SkillsService._estimate_learning_time(gap_count)
EstimateLearningTime(gap_count) ==
    LET weeks == gap_count * 3
    IN  IF weeks <= 4 THEN "1 month"
        ELSE IF weeks <= 12 THEN ToDecimal(weeks \div 4) \o " months"
        ELSE ToDecimal(weeks \div 4) \o " months"

\* the lists that list(s) can be for a set s
RECURSIVE Orderings(_)
Orderings(S) ==
    IF S = {} THEN {<<>>}
    ELSE UNION {{<<x>> \o o : o \in Orderings(S \ {x})} : x \in S}

\* analyze_gap if the match were taken over the skills of the profile
AnalyzeGapOverProfile(jobs, current_skills, target_role, rows, role_skills, critical_gaps) ==
    LET current_set == ToSet(current_skills)
        required_set == ToSet(role_skills.required)
        matching_skills == current_set \cap required_set
    IN  [ target_role |-> target_role,
          match_percentage |->
              IF current_set # {}
              THEN RoundDiv(1000 * Cardinality(matching_skills),
                            Cardinality(current_set))
              ELSE 0,
          matching_skills |-> matching_skills,
          critical_gaps |-> critical_gaps,
          prioritized_learning_path |-> PrioritizeGaps(jobs, critical_gaps, rows),
          estimated_time_to_ready |-> EstimateLearningTime(Len(critical_gaps)) ]

\* SkillsService.analyze_gap(current_skills, target_role, experience_years),
\* when _get_role_skills replies role_skills, list(required_set -
\* current_set) is critical_gaps and rows are the rows whose title matches
\* %target_role%; match_percentage in tenths of a percent
AnalyzeGap(jobs, current_skills, target_role, rows, role_skills, critical_gaps) ==
    LET current_set == ToSet(current_skills)
        required_set == ToSet(role_skills.required)
        matching_skills == current_set \cap required_set
    IN  [ target_role |-> target_role,
          match_percentage |->
              IF required_set # {}
              THEN RoundDiv(1000 * Cardinality(matching_skills),
                            Cardinality(required_set))
              ELSE 0,
          matching_skills |-> matching_skills,
          critical_gaps |-> critical_gaps,
          prioritized_learning_path |-> PrioritizeGaps(jobs, critical_gaps, rows),
          estimated_time_to_ready |-> EstimateLearningTime(Len(critical_gaps)) ]


\* line 205 without the slice
Phase1Uncapped(prioritized) == SelectSeq(prioritized, LAMBDA s : s.difficulty <= 2)

\* line 205: [s for s in prioritized if s["difficulty"] <= 2][:3]
Phase1(prioritized) == Take(SelectSeq(prioritized, LAMBDA s : s.difficulty <= 2), 3)

\* SkillsService.generate_learning_path, given the reply of analyze_gap
GenerateLearningPath(gap_analysis) ==
    LET prioritized == gap_analysis.prioritized_learning_path
    IN  [ target_role |-> gap_analysis.target_role,
          current_match |-> gap_analysis.match_percentage,
          phases |->
              << [ phase |-> 1, duration |-> "1-2 months",
                   focus |-> "Foundation Skills",
                   skills |-> Phase1(prioritized) ],
                 [ phase |-> 2, duration |-> "2-3 months",
                   focus |-> "Core Competencies",
                   skills |-> Take(SelectSeq(prioritized, LAMBDA s : s.difficulty = 3), 3) ],
                 [ phase |-> 3, duration |-> "3-4 months",
                   focus |-> "Advanced Skills",
                   skills |-> Take(SelectSeq(prioritized, LAMBDA s : s.difficulty >= 4), 2) ] >>,
          total_estimated_time |-> gap_analysis.estimated_time_to_ready ]

---------------------------------------------------------------------------
(* The record store and the skills service *)

\* postings of one role and of another, in the order they are added
SkillPostings ==
    << Job("Web Developer",
           <<"HTML", "TypeScript", "Machine Learning", "CSS", "JavaScript", "AWS",
             "Kubernetes", "SQL", "Git", "Python", "React", "Docker",
             "Deep Learning">>, 4, SomeNum(100000)),
       Job("Nurse", <<"HTML">>, 4, NoneNum),
       Job("Junior web developer",
           <<"Go", "HTML", "TypeScript", "Machine Learning", "CSS", "JavaScript">>,
           0, SomeNum(70000)),
       Job("WEB DEVELOPER (contract)",
           <<"HTML", "TypeScript", "Machine Learning", "AWS", "Kubernetes", "SQL">>,
           6, NoneNum),
       Job("Senior Web Developer",
           <<"HTML", "TypeScript", "Machine Learning", "CSS", "JavaScript", "AWS",
             "Kubernetes", "SQL", "Git", "Python", "React", "Docker",
             "Deep Learning">>, 12, SomeNum(140000)),
       Job("Web Developer",
           <<"Deep Learning", "Docker", "React", "Python", "Git", "SQL",
             "Kubernetes", "AWS", "JavaScript", "CSS", "Machine Learning",
             "TypeScript", "HTML">>, 4, SomeNum(110000)) >>

\* a table with 101 postings of one role: "Python" in 100 of them, "Pandas"
\* in 60, "SQL" in 41
SampledPostings ==
    Repeat(Job("Data Scientist", <<"Python", "Pandas">>, 6, SomeNum(130000)), 59)
        \o Repeat(Job("Data Scientist", <<"SQL", "Python">>, 6, NoneNum), 41)
        \o << Job("Senior Data Scientist", <<"Pandas">>, 14, SomeNum(170000)),
              Job("Nurse", <<"Python">>, 6, NoneNum) >>

\* a profile that has all of WebSkills but the given ones
AllBut(lacking) ==
    LET \* the skills the postings of SkillPostings name at least three times
        WebSkills ==
            <<"HTML", "TypeScript", "Machine Learning", "CSS", "JavaScript", "AWS",
              "Kubernetes", "SQL", "Git", "Python", "React", "Docker", "Deep Learning">>
    IN  SelectSeq(WebSkills, LAMBDA s : s \notin lacking)

SkillRequests ==
    [ current_skills :
          { AllBut({}), AllBut({"React"}), AllBut({"React", "AWS"}),
            AllBut({"HTML", "CSS", "Git", "JavaScript"}),
            AllBut({"TypeScript", "AWS", "Docker", "SQL"}),
            AllBut({"Machine Learning", "Kubernetes", "Deep Learning"}),
            AllBut({"HTML", "TypeScript", "Machine Learning", "CSS", "Python"}) },
      target_role : {"web developer", "Senior", "nurse", "Data Scientist", "Pilot"},
      experience_years : {6} ]

InitSkills ==
    /\ store \in {<<>>, SampledPostings}
    /\ op = "idle"
    /\ req = [current_skills |-> <<>>, target_role |-> "", experience_years |-> 0]
    /\ resp = <<>>

\* the next posting of SkillPostings is added
AddSkillPosting ==
    /\ op = "idle"
    /\ Len(store) < Len(SkillPostings)
    /\ store = SubSeq(SkillPostings, 1, Len(store))
    /\ store' = Append(store, SkillPostings[Len(store) + 1])
    /\ UNCHANGED <<op, req, resp>>

\* SkillsService._get_role_skills(role) runs to its return
GetRoleSkillsReturn ==
    /\ op = "idle"
    /\ \E r \in SkillRequests :
          /\ req' = r
          /\ \E sample \in Samples(MatchingRows(store, r.target_role)) :
                resp' = GetRoleSkills(store, sample)
    /\ op' = "get_role_skills"
    /\ UNCHANGED store

\* SkillsService.analyze_gap runs to its return
AnalyzeGapReturn ==
    /\ op = "idle"
    /\ \E r \in SkillRequests :
          LET rows == MatchingRows(store, r.target_role)
          IN  /\ req' = r
              /\ \E sample \in Samples(rows) :
                    LET role_skills == GetRoleSkills(store, sample)
                    IN  \E critical_gaps \in Orderings(ToSet(role_skills.required)
                                                        \ ToSet(r.current_skills)) :
                            resp' = AnalyzeGap(store, r.current_skills, r.target_role,
                                               rows, role_skills, critical_gaps)
    /\ op' = "analyze_gap"
    /\ UNCHANGED store

\* SkillsService.generate_learning_path runs to its return
GenerateLearningPathReturn ==
    /\ op = "idle"
    /\ \E r \in SkillRequests :
          LET rows == MatchingRows(store, r.target_role)
          IN  /\ req' = r
              /\ \E sample \in Samples(rows) :
                    LET role_skills == GetRoleSkills(store, sample)
                    IN  \E critical_gaps \in Orderings(ToSet(role_skills.required)
                                                        \ ToSet(r.current_skills)) :
                            resp' = GenerateLearningPath(
                                        AnalyzeGap(store, r.current_skills,
                                                   r.target_role, rows, role_skills,
                                                   critical_gaps))
    /\ op' = "generate_learning_path"
    /\ UNCHANGED store

SpecSkills ==
    /\ InitSkills
    /\ [][ \/ AddSkillPosting
          \/ GetRoleSkillsReturn
          \/ AnalyzeGapReturn
          \/ GenerateLearningPathReturn ]_vars

---------------------------------------------------------------------------
(* backend/services/trends_service.py                                      *)
(*                                                                         *)
(* A posted_date and the clock are counted in whole days since 2025-01-01, *)
(* a salary in thousands of dollars, a growth rate and a percentage change  *)
(* in hundredths of a percent (round(x, 2) is rounding to an integer).      *)

\* a row of the jobs table, as far as the trends service reads it
Posting(title, location, required_skills, salary, posted_date) ==
    [ title |-> title,
      location |-> location,
      required_skills |-> required_skills,   \* JSON list
      salary |-> salary,                     \* thousands of dollars or None
      posted_date |-> posted_date ]          \* days since 2025-01-01

\* round(n/d) for d > 0 and n of either sign, ties to even
RoundDivSigned(n, d) == IF n >= 0 THEN RoundDiv(n, d) ELSE 0 - RoundDiv(0 - n, d)

\* the optional role and location filters of the trends queries
PassesFilters(job, role, location) ==
    /\ Truthy(role) => TitleILike(job.title, role.val)
    /\ Truthy(location) =>
          LikeMatch(Lower(job.location), Lower("%" \o location.val \o "%"))

\* TrendsService._get_days_from_range with another default
GetDaysFromRangeDefault30(time_range) ==
    CASE time_range = "1m" -> 30
      [] time_range = "3m" -> 90
      [] time_range = "6m" -> 180
      [] time_range = "1y" -> 365
      [] OTHER -> 30

\* TrendsService._get_days_from_range: ranges.get(time_range, 90)
GetDaysFromRange(time_range) ==
    CASE time_range = "1m" -> 30
      [] time_range = "3m" -> 90
      [] time_range = "6m" -> 180
      [] time_range = "1y" -> 365
      [] OTHER -> 90

\* TrendsService._calculate_skill_growth without the older_count == 0 branch
\* for recent postings
CalculateSkillGrowthUnsaturated(jobs, skill, days, role, location, now) ==
    LET mid_point == now - (days \div 2)
        start_date == now - days
        base == {i \in DOMAIN jobs :
                    /\ skill \in ToSet(jobs[i].required_skills)
                    /\ PassesFilters(jobs[i], role, location)}
        recent_count == Cardinality({i \in base : jobs[i].posted_date >= mid_point})
        older_count == Cardinality({i \in base :
                          /\ jobs[i].posted_date >= start_date
                          /\ jobs[i].posted_date < mid_point})
    IN  IF older_count = 0 THEN 0
        ELSE RoundDivSigned(10000 * (recent_count - older_count), older_count)

\* TrendsService._calculate_skill_growth
CalculateSkillGrowth(jobs, skill, days, role, location, now) ==
    LET mid_point == now - (days \div 2)
        start_date == now - days
        base == {i \in DOMAIN jobs :
                    /\ skill \in ToSet(jobs[i].required_skills)
                    /\ PassesFilters(jobs[i], role, location)}
        recent_count == Cardinality({i \in base : jobs[i].posted_date >= mid_point})
        older_count == Cardinality({i \in base :
                          /\ jobs[i].posted_date >= start_date
                          /\ jobs[i].posted_date < mid_point})
    IN  IF older_count = 0
        THEN IF recent_count > 0 THEN 10000 ELSE 0
        ELSE RoundDivSigned(10000 * (recent_count - older_count), older_count)

\* Counter.most_common(n): the n largest counts, ties in insertion order;
\* nothing when n <= 0
MostCommon(items, n) ==
    IF n <= 0 THEN <<>>
    ELSE LET \* one insertion step: after the entries with a count at least
             \* as large
             RECURSIVE InsertByCount(_, _)
             InsertByCount(item, sorted) ==
                 IF sorted = <<>> THEN <<item>>
                 ELSE IF item[2] > sorted[1][2] THEN <<item>> \o sorted
                 ELSE <<sorted[1]>> \o InsertByCount(item, Tail(sorted))
             RECURSIVE SortFrom(_, _)
             SortFrom(k, acc) ==
                 IF k > Len(items) THEN acc
                 ELSE SortFrom(k + 1, InsertByCount(items[k], acc))
             sorted == SortFrom(1, <<>>)
         IN  SubSeq(sorted, 1, Min(n, Len(sorted)))

\* the trend label with the threshold included
TrendLabelAtLeast(growth_rate) == IF growth_rate >= 1000 THEN "rising" ELSE "stable"

\* "rising" if growth_rate > 10 else "stable"
TrendLabel(growth_rate) == IF growth_rate > 1000 THEN "rising" ELSE "stable"

\* TrendsService.get_trending_skills
GetTrendingSkills(jobs, time_range, role, location, limit, now) ==
    LET days == GetDaysFromRange(time_range)
        start_date == now - days
        rows == {i \in DOMAIN jobs :
                    /\ jobs[i].posted_date >= start_date
                    /\ PassesFilters(jobs[i], role, location)}
        keys == SkillKeys(jobs, rows)
        skill_counts == [k \in DOMAIN keys |-> <<keys[k], SkillCount(jobs, rows, keys[k])>>]
        top == MostCommon(skill_counts, limit)
        growth == [k \in DOMAIN top |->
                      CalculateSkillGrowth(jobs, top[k][1], days, role, location, now)]
    IN  [ time_range |-> time_range,
          role |-> role,
          location |-> location,
          trends |-> [k \in DOMAIN top |->
                        [ skill |-> top[k][1],
                          count |-> top[k][2],
                          growth_rate |-> growth[k],
                          trend |-> TrendLabel(growth[k]) ] ] ]

\* posted_date.strftime("%Y-%m"), by the calendar of datetime
Strftime(posted_date) ==
    LET \* the year and month of a day counted from the first day of month m
        \* of year y
        RECURSIVE YearMonthFrom(_, _, _)
        YearMonthFrom(y, m, d) ==
            LET IsLeap == (y % 4 = 0 /\ y % 100 # 0) \/ y % 400 = 0
                DaysInMonth == CASE m = 2 -> IF IsLeap THEN 29 ELSE 28
                                 [] m \in {4, 6, 9, 11} -> 30
                                 [] OTHER -> 31
            IN  IF d < DaysInMonth THEN <<y, m>>
                ELSE IF m = 12 THEN YearMonthFrom(y + 1, 1, d - DaysInMonth)
                ELSE YearMonthFrom(y, m + 1, d - DaysInMonth)
        ym == YearMonthFrom(2025, 1, posted_date)
    IN  ToDecimal(ym[1]) \o "-"
           \o (IF ym[2] < 10 THEN "0" ELSE "") \o ToDecimal(ym[2])

\* sorted(monthly_data.items()): the month keys in increasing order
RECURSIVE SortedKeys(_)
SortedKeys(keys) ==
    LET CharRank(c) ==
            CASE c = "-" -> 0 [] c = "0" -> 1 [] c = "1" -> 2 [] c = "2" -> 3
              [] c = "3" -> 4 [] c = "4" -> 5 [] c = "5" -> 6 [] c = "6" -> 7
              [] c = "7" -> 8 [] c = "8" -> 9 [] c = "9" -> 10
        \* Python's < on strings, by the code points of their characters
        RECURSIVE StrLess(_, _)
        StrLess(a, b) ==
            IF Len(b) = 0 THEN FALSE
            ELSE IF Len(a) = 0 THEN TRUE
            ELSE IF SubSeq(a, 1, 1) = SubSeq(b, 1, 1)
                 THEN StrLess(SubSeq(a, 2, Len(a)), SubSeq(b, 2, Len(b)))
            ELSE CharRank(SubSeq(a, 1, 1)) < CharRank(SubSeq(b, 1, 1))
    IN  IF keys = {} THEN <<>>
        ELSE LET least == CHOOSE k \in keys : \A j \in keys \ {k} : StrLess(k, j)
             IN  <<least>> \o SortedKeys(keys \ {least})

RECURSIVE SalarySum(_, _)
SalarySum(jobs, S) ==
    IF S = {} THEN 0
    ELSE LET i == CHOOSE i \in S : TRUE
         IN  jobs[i].salary.val + SalarySum(jobs, S \ {i})

\* TrendsService.get_salary_trends
GetSalaryTrends(jobs, role, time_range, location, now) ==
    LET days == GetDaysFromRange(time_range)
        start_date == now - days
        rows == {i \in DOMAIN jobs :
                    /\ TitleILike(jobs[i].title, role)
                    /\ jobs[i].posted_date >= start_date
                    /\ jobs[i].salary.some
                    /\ Truthy(location) =>
                          LikeMatch(Lower(jobs[i].location),
                                    Lower("%" \o location.val \o "%"))}
        months == SortedKeys({Strftime(jobs[i].posted_date) : i \in rows})
        InMonth(key) == {i \in rows : Strftime(jobs[i].posted_date) = key}
        \* np.median: the middle salary, or the mean of the two middle ones
        Median(S) ==
            LET n == Cardinality(S)
                Below(i) == Cardinality({j \in S :
                                \/ jobs[j].salary.val < jobs[i].salary.val
                                \/ (jobs[j].salary.val = jobs[i].salary.val /\ j < i)})
                At(r) == jobs[CHOOSE i \in S : Below(i) = r].salary.val
            IN  IF n % 2 = 1 THEN Frac(At(n \div 2), 1)
                ELSE Frac(At(n \div 2 - 1) + At(n \div 2), 2)
        \* round(((last_avg - first_avg) / first_avg) * 100, 2)
        OverallChange(first_avg, last_avg) ==
            RoundDivSigned(10000 * (last_avg.num * first_avg.den
                                       - first_avg.num * last_avg.den),
                           first_avg.num * last_avg.den)
        trends == [k \in DOMAIN months |->
                      [ month |-> months[k],
                        avg_salary |-> Frac(SalarySum(jobs, InMonth(months[k])),
                                            Cardinality(InMonth(months[k]))),
                        median_salary |-> Median(InMonth(months[k])),
                        sample_size |-> Cardinality(InMonth(months[k])) ]]
    IN  IF rows = {} THEN [ error |-> "No data found" ]
        ELSE [ role |-> role,
               location |-> location,
               time_range |-> time_range,
               trends |-> trends,
               overall_change_pct |->
                   IF Len(trends) >= 2
                   THEN OverallChange(trends[1].avg_salary, trends[Len(trends)].avg_salary)
                   ELSE 0 ]

---------------------------------------------------------------------------
(* The trends service over a jobs table: SpecTrends *)

MaxTrendNew == 2      \* postings added on top of the seeded table

\* postings of the last year, one of them older than a year and one posted
\* on the day of the first clock reading; day 365 is 2026-01-01
TrendPostings ==
    << Posting("Software Engineer", "Seattle, WA", <<"Python", "AWS">>,
               SomeNum(120), 395),
       Posting("Senior Software Engineer", "Remote", <<"Docker", "Python">>,
               SomeNum(150), 380),
       Posting("Data Scientist", "Seattle, WA", <<"Python", "Machine Learning">>,
               SomeNum(130), 340),
       Posting("Software Engineer", "New York, NY", <<"AWS">>,
               NoneNum, 300),
       Posting("software engineer II", "Seattle, WA", <<"Docker", "AWS">>,
               SomeNum(100), 200),
       Posting("DevOps Engineer", "Austin, TX", <<"AWS", "Docker">>,
               SomeNum(105), 100),
       Posting("Software Engineer", "Seattle, WA", <<"Go", "Docker">>,
               SomeNum(90), 60),
       Posting("Software Engineer", "Seattle, WA", <<"Go">>,
               SomeNum(80), 20),
       Posting("Software Engineer", "Remote", <<"Rust">>,
               SomeNum(110), 400) >>

\* the clock readings of the requests: 2026-02-05 and 2026-03-02
Clock == {400, 425}

\* the optional role and location of a request
TrendFilters == [role : {NoneStr, Some("engineer")}, location : {NoneStr, Some("seattle")}]

\* the table is empty, or seeded with TrendPostings, or with ten postings
\* asking for Rust in the first half of the last 90 days and eleven in the
\* second half
InitTrends ==
    /\ store \in
          { <<>>, TrendPostings,
            Repeat(Posting("Backend Developer", "Remote", <<"Rust">>,
                           SomeNum(140), 320), 10)
               \o Repeat(Posting("Backend Developer", "Remote", <<"Rust", "Go">>,
                                 SomeNum(154), 390), 11) }
    /\ op = "idle"
    /\ req = <<>>
    /\ resp = <<>>

\* the collector saves a posting
AddTrendPosting ==
    LET TrendNewPostings ==
            { Posting("Software Engineer", "Seattle, WA", <<"AWS", "Go">>, SomeNum(141), 399),
              Posting("Backend Engineer", "Austin, TX", <<"Go", "Docker">>, SomeNum(95), 310) }
    IN  /\ op = "idle"
        /\ Cardinality({i \in DOMAIN store : store[i] \in TrendNewPostings}) < MaxTrendNew
        /\ \E job \in TrendNewPostings : store' = Append(store, job)
        /\ UNCHANGED <<op, req, resp>>

GetTrendingSkillsReturn ==
    /\ op = "idle"
    /\ \E time_range \in {"1m", "3m", "6m", "1y", "2w"}, f \in TrendFilters,
          limit \in {0, 1, 2, 20}, now \in Clock :
          /\ req' = [ time_range |-> time_range, role |-> f.role,
                      location |-> f.location, limit |-> limit, now |-> now ]
          /\ resp' = GetTrendingSkills(store, time_range, f.role, f.location, limit, now)
    /\ op' = "get_trending_skills"
    /\ UNCHANGED store

CalculateSkillGrowthReturn ==
    /\ op = "idle"
    /\ \E skill \in {"Docker", "AWS", "Go", "Rust", "COBOL"}, days \in {30, 90, 365},
          f \in TrendFilters, now \in Clock :
          /\ req' = [ skill |-> skill, days |-> days, role |-> f.role,
                      location |-> f.location, now |-> now ]
          /\ resp' = CalculateSkillGrowth(store, skill, days, f.role, f.location, now)
    /\ op' = "calculate_skill_growth"
    /\ UNCHANGED store

GetSalaryTrendsReturn ==
    /\ op = "idle"
    /\ \E role \in {"engineer", "Developer", "Pilot"},
          time_range \in {"1m", "3m", "6m", "1y", "2w"},
          location \in {f.location : f \in TrendFilters}, now \in Clock :
          /\ req' = [ role |-> role, time_range |-> time_range,
                      location |-> location, now |-> now ]
          /\ resp' = GetSalaryTrends(store, role, time_range, location, now)
    /\ op' = "get_salary_trends"
    /\ UNCHANGED store

SpecTrends ==
    /\ InitTrends
    /\ [][ \/ AddTrendPosting
          \/ GetTrendingSkillsReturn
          \/ CalculateSkillGrowthReturn
          \/ GetSalaryTrendsReturn ]_vars

---------------------------------------------------------------------------
(* ml/inference/forecaster.py and TrendsService.forecast_demand            *)
(*                                                                         *)
(* A growth_rate is counted in hundredths (0.15 is 15).  The value         *)
(* base * (1 + growth_rate) ** (month / 12) is irrational for most months,  *)
(* so a predicted demand is kept as the term [base, growth_rate, month] it  *)
(* is the rounded value of, and the total growth as the term of its two     *)
(* operands.                                                                *)

\* self.skill_growth_patterns
skill_growth_patterns ==
    << [skill |-> "Machine Learning", base |-> 100, growth_rate |-> 15],
       [skill |-> "Kubernetes",       base |-> 80,  growth_rate |-> 20],
       [skill |-> "React",            base |-> 120, growth_rate |-> 10],
       [skill |-> "Python",           base |-> 150, growth_rate |-> 8] >>

\* the label of the forecast with the threshold included
ForecastTrendAtLeast(growth_rate) == IF growth_rate >= 10 THEN "growing" ELSE "stable"

\* "growing" if pattern["growth_rate"] > 0.10 else "stable"
ForecastTrend(growth_rate) == IF growth_rate > 10 THEN "growing" ELSE "stable"

\* SkillForecaster.predict; forecasts[-1] of an empty list raises IndexError
ForecasterPredict(skill, months, now) ==
    LET \* self.skill_growth_patterns.get(skill, {"base": 100, "growth_rate": 0.10})
        pattern ==
            IF \E k \in DOMAIN skill_growth_patterns :
                   skill_growth_patterns[k].skill = skill
            THEN LET k == CHOOSE k \in DOMAIN skill_growth_patterns :
                             skill_growth_patterns[k].skill = skill
                 IN  [ base |-> skill_growth_patterns[k].base,
                       growth_rate |-> skill_growth_patterns[k].growth_rate ]
            ELSE [ base |-> 100, growth_rate |-> 10 ]
        \* round(pattern["base"] * ((1 + pattern["growth_rate"]) ** (month / 12)), 2)
        PredictedDemand(month) ==
            [ base |-> pattern.base, growth_rate |-> pattern.growth_rate,
              month |-> month ]
        forecasts == [ month \in 1..months |->
                         [ date |-> Strftime(now + 30 * month),
                           month |-> month,
                           predicted_demand |-> PredictedDemand(month),
                           growth_rate_pct |-> pattern.growth_rate * 10 ] ]  \* tenths
    IN  IF months < 1 THEN [ raised |-> "IndexError" ]
        ELSE [ skill |-> skill,
               forecast_horizon_months |-> months,
               forecasts |-> forecasts,
               summary |->
                   [ total_growth_pct |->
                         [ final |-> forecasts[months].predicted_demand,
                           base |-> pattern.base ],
                     trend |-> ForecastTrend(pattern.growth_rate) ] ]

\* TrendsService.forecast_demand: the given skills, or the 20 top skills of
\* the last 6 months; an exception of predict leaves through it
ForecastDemand(jobs, months, skills, now) ==
    LET trending == GetTrendingSkills(jobs, "6m", NoneStr, NoneStr, 20, now)
        names == IF skills.some /\ skills.val # <<>>
                 THEN ToSet(skills.val)
                 ELSE {trending.trends[k].skill : k \in DOMAIN trending.trends}
    IN  IF months < 1 /\ names # {} THEN [ raised |-> "IndexError" ]
        ELSE [ forecast_months |-> months,
               forecasts |-> [ s \in names |-> ForecasterPredict(s, months, now) ],
               generated_at |-> now ]

---------------------------------------------------------------------------
(* The forecaster behind the trends service: SpecForecast *)

\* the longest horizon the route accepts
MaxMonths == 24

InitForecast ==
    /\ store \in {<<>>, TrendPostings}
    /\ op = "idle"
    /\ req = <<>>
    /\ resp = <<>>

ForecasterPredictReturn ==
    /\ op = "idle"
    /\ \E skill \in {"Machine Learning", "Kubernetes", "React", "Python", "Rust", ""},
          months \in 0..MaxMonths, now \in Clock :
          /\ req' = [ skill |-> skill, months |-> months, now |-> now ]
          /\ resp' = ForecasterPredict(skill, months, now)
    /\ op' = "forecaster_predict"
    /\ UNCHANGED store

ForecastDemandReturn ==
    /\ op = "idle"
    /\ \E months \in 0..MaxMonths, now \in Clock,
          skills \in { [some |-> FALSE, val |-> <<>>],
                       [some |-> TRUE, val |-> <<>>],
                       [some |-> TRUE, val |-> <<"React">>],
                       [some |-> TRUE, val |-> <<"Machine Learning", "React", "Rust">>],
                       [some |-> TRUE,
                        val |-> <<"Python", "Kubernetes", "python", "Python">>] } :
          /\ req' = [ months |-> months, skills |-> skills, now |-> now ]
          /\ resp' = ForecastDemand(store, months, skills, now)
    /\ op' = "forecast_demand"
    /\ UNCHANGED store

SpecForecast ==
    /\ InitForecast
    /\ [][ \/ AddTrendPosting
          \/ ForecasterPredictReturn
          \/ ForecastDemandReturn ]_vars

---------------------------------------------------------------------------
(* ml/inference/skill_extractor.py *)

\* self.skill_patterns: the alternatives of each category's pattern
\* \b(...|...)\b in the order of the pattern, the categories in the order
\* of the dict; an alternative with an optional dot (Nest\.?js) stands as
\* its two texts, the one with the dot first as the greedy ? tries it first
skill_patterns ==
    << \* languages
       << "Python", "Java", "JavaScript", "TypeScript", "Go", "Rust",
          "C++", "C#", "Ruby", "PHP", "Swift", "Kotlin", "Scala",
          "Elixir", "Haskell", "R", "MATLAB", "Perl", "Lua", "Clojure",
          "Groovy", "VB.NET", "Objective-C" >>,
       \* frameworks
       << "React", "Angular", "Vue", "Django", "Flask", "FastAPI",
          "Spring", "Express", "Rails", "Nest.js", "Nestjs", "Next.js",
          "Nextjs", "Svelte", "Ember", "Backbone", "Tornado", "Pyramid",
          "Bottle", "Falcon", "Quart", "Starlette", "ASP.NET", "Blazor",
          "Xamarin", "Flutter", "SwiftUI" >>,
       \* databases
       << "PostgreSQL", "MySQL", "MongoDB", "Redis", "Elasticsearch",
          "SQLite", "MariaDB", "Oracle", "SQLServer", "Cassandra",
          "HBase", "DynamoDB", "Firestore", "CosmosDB", "Neo4j",
          "ArangoDB", "CouchDB", "Memcached", "RethinkDB" >>,
       \* cloud
       << "AWS", "Azure", "GCP", "Google Cloud", "DigitalOcean",
          "Heroku", "Firebase", "Netlify", "Vercel", "IBM Cloud",
          "Oracle Cloud", "Alibaba Cloud", "Docker", "Kubernetes",
          "OpenShift", "ECS", "Lambda", "CloudFunctions", "Serverless" >>,
       \* ml
       << "Machine Learning", "Deep Learning", "TensorFlow", "PyTorch",
          "Keras", "scikit-learn", "XGBoost", "LightGBM", "CatBoost",
          "OpenCV", "NLP", "Natural Language Processing",
          "Computer Vision", "BERT", "GPT", "Transformers",
          "Hugging Face", "Jupyter", "Pandas", "NumPy", "SciPy",
          "Matplotlib", "Seaborn", "Plotly" >>,
       \* devops
       << "CI/CD", "Jenkins", "GitLab CI", "GitHub Actions", "Travis CI",
          "CircleCI", "Terraform", "Ansible", "Puppet", "Chef",
          "Vagrant", "Prometheus", "Grafana", "ELK", "Splunk", "DataDog",
          "New Relic", "Git", "SVN" >>,
       \* testing
       << "pytest", "unittest", "Jest", "Mocha", "Jasmine", "RSpec",
          "Selenium", "Cypress", "Playwright", "LoadRunner", "JMeter",
          "Test", "Automation", "QA", "BDD", "TDD", "Coverage", "Mock" >>,
       \* other_tech
       << "REST", "GraphQL", "gRPC", "Microservices", "API", "WebSocket",
          "OAuth", "JWT", "SSL", "TLS", "CORS", "JSON", "XML",
          "Protocol Buffers", "WebAssembly", "Linux", "Unix", "Windows",
          "macOS", "Git", "GitHub", "GitLab", "Bitbucket", "Jira",
          "Confluence", "Slack", "Agile", "Scrum", "Kanban" >> >>

\* self.soft_skill_keywords, in the order of the list
soft_skill_keywords ==
    << "communication", "active listening", "presentation",
       "public speaking", "writing", "storytelling", "clarity",
       "articulation", "negotiation", "persuasion", "leadership",
       "mentoring", "coaching", "delegation", "motivation",
       "team building", "performance management", "strategic planning",
       "vision", "decision making", "executive presence", "influence",
       "teamwork", "collaboration", "cooperation", "partnership",
       "cross-functional", "stakeholder management",
       "interpersonal skills", "empathy", "social skills",
       "problem solving", "critical thinking", "analytical thinking",
       "analytical skills", "logical thinking", "reasoning", "debugging",
       "troubleshooting", "root cause analysis", "systems thinking",
       "strategic thinking", "creativity", "innovation", "reliability",
       "accountability", "ownership", "self-starter", "initiative",
       "proactive", "adaptability", "flexibility", "agility",
       "resilience", "persistence", "determination", "work ethic",
       "professionalism", "integrity", "time management", "organization",
       "planning", "prioritization", "multitasking",
       "project management", "attention to detail", "follow-through",
       "execution", "learning", "continuous learning", "growth mindset",
       "curiosity", "intellectual ability", "adaptability",
       "quick learner", "self-directed learning", "knowledge sharing",
       "conflict resolution", "diplomatic", "mediation",
       "consensus building", "patience", "emotional intelligence",
       "self-awareness", "humility", "customer focus",
       "customer service", "customer empathy", "user-centric",
       "business acumen", "financial literacy", "data-driven",
       "quality focus", "customer satisfaction", "vendor management",
       "relationship building" >>

\* str.strip(): without the white space at its ends, on ASCII text
RECURSIVE Strip(_)
Strip(s) ==
    LET IsSpace(c) == c \in {" ", "\t", "\n"}
    IN  IF s = "" THEN ""
        ELSE IF IsSpace(SubSeq(s, 1, 1)) THEN Strip(SubSeq(s, 2, Len(s)))
        ELSE IF IsSpace(SubSeq(s, Len(s), Len(s))) THEN Strip(SubSeq(s, 1, Len(s) - 1))
        ELSE s

\* SkillExtractor._preprocess_text: re.sub(r'\s+', ' ', text).strip()
PreprocessText(text) ==
    LET \* \s, on ASCII text
        IsSpace(c) == c \in {" ", "\t", "\n"}
        RECURSIVE Collapse(_)
        Collapse(s) ==
            IF s = "" THEN ""
            ELSE IF ~IsSpace(SubSeq(s, 1, 1))
                 THEN SubSeq(s, 1, 1) \o Collapse(SubSeq(s, 2, Len(s)))
            ELSE IF Len(s) > 1 /\ IsSpace(SubSeq(s, 2, 2))
                 THEN Collapse(SubSeq(s, 2, Len(s)))
            ELSE " " \o Collapse(SubSeq(s, 2, Len(s)))
    IN  Strip(Collapse(text))

\* \b at the gap before character i of text (i = Len(text) + 1 is its end):
\* exactly one of the two neighbours is a word character [A-Za-z0-9_]
WordBoundary(text, i) ==
    LET IsWordChar(c) ==
            LowerChar(c) \in
                { "a", "b", "c", "d", "e", "f", "g", "h", "i", "j", "k", "l",
                  "m", "n", "o", "p", "q", "r", "s", "t", "u", "v", "w", "x",
                  "y", "z", "0", "1", "2", "3", "4", "5", "6", "7", "8", "9",
                  "_" }
        before == i > 1 /\ IsWordChar(SubSeq(text, i - 1, i - 1))
        after  == i <= Len(text) /\ IsWordChar(SubSeq(text, i, i))
    IN  before # after

\* what the regular expression (alts[1]|alts[2]|...) with re.IGNORECASE
\* takes at character i of text, enclosed in \b...\b when bounded: the
\* length of the first alternative in order with which the whole expression
\* matches, 0 when there is none
MatchLen(text, i, alts, bounded) ==
    LET fits(k) ==
            LET end == i + Len(alts[k])
            IN  /\ end <= Len(text) + 1
                /\ LowerChar(SubSeq(text, i, i)) = LowerChar(SubSeq(alts[k], 1, 1))
                /\ Lower(SubSeq(text, i, end - 1)) = Lower(alts[k])
                /\ bounded => WordBoundary(text, end)
        hits == {k \in DOMAIN alts : fits(k)}
    IN  IF (bounded => WordBoundary(text, i)) /\ hits # {}
        THEN Len(alts[CHOOSE k \in hits : \A j \in hits : k <= j])
        ELSE 0

\* finditer if the patterns had no \b around them
RECURSIVE FindIterUnbounded(_, _, _)
FindIterUnbounded(text, i, alts) ==
    IF i > Len(text) THEN <<>>
    ELSE LET n == MatchLen(text, i, alts, FALSE)
         IN  IF n = 0 THEN FindIterUnbounded(text, i + 1, alts)
             ELSE <<SubSeq(text, i, i + n - 1)>> \o FindIterUnbounded(text, i + n, alts)

\* [match.group(0) for match in re.finditer(pattern, text, re.IGNORECASE)]
\* from character i on: the matches from left to right, none overlapping
RECURSIVE FindIter(_, _, _)
FindIter(text, i, alts) ==
    IF i > Len(text) THEN <<>>
    ELSE LET n == MatchLen(text, i, alts, TRUE)
         IN  IF n = 0 THEN FindIter(text, i + 1, alts)
             ELSE <<SubSeq(text, i, i + n - 1)>> \o FindIter(text, i + n, alts)

\* the rules if ASP.NET were written back with small letters
normalizationsSmallAsp ==
    << << <<"Nest.js", "Nestjs">>, "NestJS" >>,
       << <<"Next.js", "Nextjs">>, "NextJS" >>,
       << <<"Node.js", "Nodejs">>, "NodeJS" >>,
       << <<"C++">>, "C++" >>,
       << <<".NET">>, ".NET" >>,
       << <<"ASP.NET">>, "asp.NET" >>,
       << <<"VB.NET">>, "VB.NET" >>,
       << <<"CI/CD", "CICD">>, "CI/CD" >>,
       << <<"REST API">>, "REST API" >> >>

\* the dict normalizations of _normalize_skill_name in its order: the texts
\* each pattern takes, and the canonical form
normalizations ==
    << << <<"Nest.js", "Nestjs">>, "NestJS" >>,
       << <<"Next.js", "Nextjs">>, "NextJS" >>,
       << <<"Node.js", "Nodejs">>, "NodeJS" >>,
       << <<"C++">>, "C++" >>,
       << <<".NET">>, ".NET" >>,
       << <<"ASP.NET">>, "ASP.NET" >>,
       << <<"VB.NET">>, "VB.NET" >>,
       << <<"CI/CD", "CICD">>, "CI/CD" >>,
       << <<"REST API">>, "REST API" >> >>

\* SkillExtractor._normalize_skill_name(skill)
NormalizeSkillName(skill) ==
    LET \* re.sub(pattern, canonical, string, flags=re.IGNORECASE)
        RECURSIVE ReSub(_, _, _)
        ReSub(string, alts, canonical) ==
            IF string = "" THEN ""
            ELSE LET n == MatchLen(string, 1, alts, FALSE)
                 IN  IF n = 0
                     THEN SubSeq(string, 1, 1)
                             \o ReSub(SubSeq(string, 2, Len(string)), alts, canonical)
                     ELSE canonical
                             \o ReSub(SubSeq(string, n + 1, Len(string)), alts, canonical)
    IN  LET RECURSIVE Apply(_, _)
            Apply(s, k) ==
                IF k > Len(normalizations) THEN s
                ELSE Apply(ReSub(s, normalizations[k][1], normalizations[k][2]), k + 1)
        IN  Strip(Apply(skill, 1))

\* SkillExtractor.extract(text)
Extract(text) ==
    LET \* sorted(set(found)): the distinct strings in the order of Python's < on
        \* str, by the code points of their characters
        RECURSIVE SortedStrings(_)
        SortedStrings(S) ==
            LET \* the characters of the skill names, by code point
                Ascii == " #+-./0123456789ABCDEFGHIJKLMNOPQRSTUVWXYZ_abcdefghijklmnopqrstuvwxyz"
                Ord(c) == CHOOSE n \in 1..Len(Ascii) : SubSeq(Ascii, n, n) = c
                RECURSIVE Less(_, _)
                Less(a, b) ==
                    IF b = "" THEN FALSE
                    ELSE IF a = "" THEN TRUE
                    ELSE IF SubSeq(a, 1, 1) = SubSeq(b, 1, 1)
                         THEN Less(SubSeq(a, 2, Len(a)), SubSeq(b, 2, Len(b)))
                    ELSE Ord(SubSeq(a, 1, 1)) < Ord(SubSeq(b, 1, 1))
            IN  IF S = {} THEN <<>>
                ELSE LET least == CHOOSE x \in S : \A y \in S \ {x} : Less(x, y)
                     IN  <<least>> \o SortedStrings(S \ {least})
    IN  LET \* SkillExtractor._extract_soft_skills(text)
            ExtractSoftSkills(cleaned) ==
                LET \* str.title(): a letter after a letter in lower case, any other letter in
                    \* upper case
                    Title(s) ==
                        LET Capitals == { "A", "B", "C", "D", "E", "F", "G", "H", "I", "J", "K",
                                          "L", "M", "N", "O", "P", "Q", "R", "S", "T", "U", "V",
                                          "W", "X", "Y", "Z" }
                            IsLetter(c) == LowerChar(c) # c \/ \E u \in Capitals : LowerChar(u) = c
                            UpperChar(c) == IF \E u \in Capitals : LowerChar(u) = c
                                            THEN CHOOSE u \in Capitals : LowerChar(u) = c
                                            ELSE c
                            RECURSIVE From(_)
                            From(i) ==
                                IF i > Len(s) THEN ""
                                ELSE (IF i > 1 /\ IsLetter(SubSeq(s, i - 1, i - 1))
                                      THEN LowerChar(SubSeq(s, i, i))
                                      ELSE UpperChar(SubSeq(s, i, i))) \o From(i + 1)
                        IN  From(1)
                IN  LET lower_text == Lower(cleaned)
                        \* re.search(r'\b' + re.escape(keyword) + r'\b', lower_text, ...)
                        Search(keyword) ==
                            \E i \in 1..Len(lower_text) : MatchLen(lower_text, i, <<keyword>>, TRUE) > 0
                        RECURSIVE Found(_)
                        Found(k) ==
                            IF k > Len(soft_skill_keywords) THEN <<>>
                            ELSE (IF Search(soft_skill_keywords[k])
                                  THEN <<Title(soft_skill_keywords[k])>> ELSE <<>>) \o Found(k + 1)
                    IN  Found(1)
        IN  LET \* SkillExtractor._extract_with_rules(text)
                ExtractWithRules(cleaned) ==
                    LET RECURSIVE Normalized(_, _)
                        Normalized(found, k) ==
                            IF k > Len(found) THEN <<>>
                            ELSE <<NormalizeSkillName(found[k])>> \o Normalized(found, k + 1)
                        RECURSIVE Categories(_)
                        Categories(c) ==
                            IF c > Len(skill_patterns) THEN <<>>
                            ELSE Normalized(FindIter(cleaned, 1, skill_patterns[c]), 1) \o Categories(c + 1)
                    IN  Categories(1)
            IN  LET preprocessed == PreprocessText(text)
                IN  [ technical |-> SortedStrings(ToSet(ExtractWithRules(preprocessed))),
                      soft |-> SortedStrings(ToSet(ExtractSoftSkills(preprocessed))) ]

---------------------------------------------------------------------------
(* backend/services/skills_service.py: the skill taxonomy *)

\* self.skill_categories.values(), in the order of the dict
skill_categories ==
    << << "Python", "JavaScript", "Java", "TypeScript", "Go", "Rust", "C++", "C#" >>,
       << "React", "Vue", "Angular", "HTML", "CSS", "Next.js" >>,
       << "Node.js", "Express", "Django", "Flask", "Spring" >>,
       << "PostgreSQL", "MySQL", "MongoDB", "Redis" >>,
       << "AWS", "Azure", "GCP", "Docker", "Kubernetes" >>,
       << "Machine Learning", "TensorFlow", "PyTorch", "Pandas" >> >>

\* validate_skills if it kept the spelling of every skill it is given
ValidateSkillsAsGiven(skills) ==
    [ valid_skills |-> skills, invalid_skills |-> <<>> ]

\* SkillsService.validate_skills(skills)
ValidateSkills(skills) ==
    LET known_skills ==
            UNION {{Lower(skill_categories[c][k]) : k \in DOMAIN skill_categories[c]} :
                      c \in DOMAIN skill_categories}
        \* the inner loop over one category: it appends the first name of
        \* the category equal to skill_lower and breaks
        InCategory(skill_lower, cat_skills) ==
            LET equal == {k \in DOMAIN cat_skills : Lower(cat_skills[k]) = skill_lower}
            IN  IF equal = {} THEN <<>>
                ELSE <<cat_skills[CHOOSE k \in equal : \A j \in equal : k <= j]>>
        \* the loop over the categories: the break leaves the inner one only
        RECURSIVE Categories(_, _)
        Categories(skill_lower, c) ==
            IF c > Len(skill_categories) THEN <<>>
            ELSE InCategory(skill_lower, skill_categories[c])
                    \o Categories(skill_lower, c + 1)
        RECURSIVE Valid(_)
        Valid(n) ==
            IF n > Len(skills) THEN <<>>
            ELSE (IF Lower(skills[n]) \in known_skills
                  THEN Categories(Lower(skills[n]), 1)
                  ELSE <<skills[n]>>) \o Valid(n + 1)
    IN  [ valid_skills |-> Valid(1), invalid_skills |-> <<>> ]

\* SkillsService.extract_skills(job_description)
ExtractSkills(job_description) ==
    LET extracted == Extract(job_description)
        validated_tech == ValidateSkills(extracted.technical)
        soft_skills == extracted.soft
    IN  [ technical_skills |-> validated_tech.valid_skills,
          soft_skills |-> soft_skills,
          counts |-> [ technical |-> Len(validated_tech.valid_skills),
                       soft |-> Len(soft_skills),
                       total |-> Len(validated_tech.valid_skills) + Len(soft_skills) ] ]

---------------------------------------------------------------------------
(* Skill extraction requests: SpecExtract *)

\* job descriptions: the empty text, and two fragments with a blank between
\* them
JobDescriptions ==
    LET \* fragments of job descriptions
        Fragments ==
            { "", "python", "Python", "java", "JavaScript", "nest.js", "NestJS",
              "node.js", "C++11", "c#", "asp.net", "ci/cd", "Machine  Learning",
              "cooking", "pythonic", "leadership", "team\n\tbuilding" }
    IN  {""} \cup {a \o " " \o b : a \in Fragments, b \in Fragments}

\* the longest list of skills handed to validate_skills
MaxListLen == 2

InitExtract ==
    /\ store = <<>>
    /\ op = "idle"
    /\ req = <<>>
    /\ resp = <<>>

ExtractReturn ==
    /\ op = "idle"
    /\ \E text \in JobDescriptions :
          /\ req' = [ text |-> text ]
          /\ resp' = Extract(text)
    /\ op' = "extract"
    /\ UNCHANGED store

NormalizeSkillNameReturn ==
    LET \* skill strings: every text a technical pattern takes, in the casing of
        \* the pattern, in lower case and in capitals after the first letter
        SkillStrings ==
            LET RECURSIVE Upper(_)
                Upper(s) ==
                    IF s = "" THEN ""
                    ELSE LET c == SubSeq(s, 1, 1)
                             Capitals == "ABCDEFGHIJKLMNOPQRSTUVWXYZ"
                             u == {n \in 1..26 : LowerChar(SubSeq(Capitals, n, n)) = c}
                         IN  (IF u = {} THEN c
                              ELSE LET n == CHOOSE n \in u : TRUE IN SubSeq(Capitals, n, n))
                                \o Upper(SubSeq(s, 2, Len(s)))
                texts == UNION {ToSet(skill_patterns[c]) : c \in DOMAIN skill_patterns}
            IN  texts \cup {Lower(t) : t \in texts} \cup {Upper(t) : t \in texts}
                   \cup {"", "Rust lang", " Go ", "nest.js and next.js", "asp.net core",
                         "cicd/ci/cd", "rest api"}
    IN  /\ op = "idle"
        /\ \E skill \in SkillStrings :
              /\ req' = [ skill |-> skill ]
              /\ resp' = NormalizeSkillName(skill)
        /\ op' = "normalize_skill_name"
        /\ UNCHANGED store

ValidateSkillsReturn ==
    LET \* lists of skills handed to validate_skills
        SkillLists ==
            SeqsUpTo({"python", "Python", "NEXT.JS", "NextJS", "c++", "Cobol",
                      "machine learning", ""}, MaxListLen)
    IN  /\ op = "idle"
        /\ \E skills \in SkillLists :
              /\ req' = [ skills |-> skills ]
              /\ resp' = ValidateSkills(skills)
        /\ op' = "validate_skills"
        /\ UNCHANGED store

ExtractSkillsReturn ==
    /\ op = "idle"
    /\ \E job_description \in JobDescriptions :
          /\ req' = [ job_description |-> job_description ]
          /\ resp' = ExtractSkills(job_description)
    /\ op' = "extract_skills"
    /\ UNCHANGED store

SpecExtract ==
    /\ InitExtract
    /\ [][ \/ ExtractReturn
          \/ NormalizeSkillNameReturn
          \/ ValidateSkillsReturn
          \/ ExtractSkillsReturn ]_vars

---------------------------------------------------------------------------
(* Sessions, failing queries and concurrent requests: SpecSessions         *)
(*                                                                         *)
(* Every method that reads the store is                                    *)
(*     db = get_db_session(); try: <queries> finally: db.close()           *)
(* with no except clause.  A request in service is a frame in op: pc is    *)
(* the next step of its plan, calls the stack of the sessions of the       *)
(* methods that are running, sessions the number of times each session it   *)
(* opened was closed, acc the growth rates appended to the local list       *)
(* trends, error the exception that is propagating, plan the steps it takes *)
(* when no query fails, queries the number of queries it has issued.        *)

\* the requests in service at the same time, on the same service instances
Clients == {1, 2}

\* what a failing query raises
StoreErrors == {"OperationalError", "TimeoutError"}

\* a table of postings with every column of Job
SessionPostings ==
    LET Row(p, experience_required) ==
            [ title |-> p.title, location |-> p.location,
              required_skills |-> p.required_skills,
              experience_required |-> experience_required,
              salary |-> p.salary, posted_date |-> p.posted_date ]
    IN  << Row(TrendPostings[1], 6), Row(TrendPostings[2], 10),
           Row(TrendPostings[3], 4), Row(TrendPostings[6], 8),
           Row(TrendPostings[9], 6) >>

\* what the computation returns when it runs alone and no query fails
Alone(jobs, c) ==
    LET role == IF c.role = "" THEN NoneStr ELSE Some(c.role)
    IN  CASE c.operation = "find_matching_roles" ->
                FindMatchingRoles(jobs, <<c.skill>>, 6)
          [] c.operation = "get_role_skills" ->
                GetRoleSkills(jobs, MatchingRows(jobs, c.role))
          [] c.operation = "skill_demand" ->
                GetSkillDemand(jobs, c.skill, MatchingRows(jobs, c.role))
          [] c.operation = "confidence" -> CalculateConfidence(jobs, 6, c.role)
          [] c.operation = "percentile" -> CalculateMarketPercentile(jobs, Dollars(115), c.role)
          [] c.operation = "trending_skills" ->
                GetTrendingSkills(jobs, c.time_range, role, NoneStr, 2, 400)
          [] c.operation = "skill_growth" ->
                CalculateSkillGrowth(jobs, c.skill, GetDaysFromRange(c.time_range),
                                     role, NoneStr, 400)
          [] c.operation = "salary_trends" ->
                GetSalaryTrends(jobs, c.role, c.time_range, NoneStr, 400)

\* the steps of the computation in order: get_db_session(), each query, and
\* db.close(); get_trending_skills calls _calculate_skill_growth, which has
\* a session and two count queries of its own, once for each top skill
Plan(jobs, c) ==
    CASE c.operation \in {"skill_demand", "skill_growth"} ->
            <<"open", "query", "query", "close">>
      [] c.operation = "trending_skills" ->
            LET RECURSIVE Growths(_)
                Growths(n) ==
                    IF n = 0 THEN <<>>
                    ELSE <<"open", "query", "query", "close">> \o Growths(n - 1)
            IN  <<"open", "query">> \o Growths(Len(Alone(jobs, c).trends))
                   \o <<"close">>
      [] OTHER -> <<"open", "query", "close">>

\* the table after a DELETE
StoreAfterDelete(jobs) == <<>>

\* the table after the SELECT of query.all(), .count() or .scalar()
StoreAfterQuery(jobs) == jobs

\* trends.append into the list of every request in service, as if the list
\* were a field of the service
AppendToShared(frames, r, growth_rate) ==
    [q \in DOMAIN frames |-> [frames[q] EXCEPT !.acc = Append(@, growth_rate)]]

\* trends.append(...) at trends_service.py:56, trends being local to the call
AppendToLocal(frames, r, growth_rate) ==
    [frames EXCEPT ![r].acc = Append(@, growth_rate)]

\* a failing query in a method without try/finally
AfterFailureNoFinally(frame, error) ==
    [frame EXCEPT !.error = Some(error), !.queries = @ + 1, !.calls = <<>>]

\* the frame when a query raises: the exception propagates, through the
\* finally clause of every running method
AfterFailure(frame, error) ==
    [frame EXCEPT !.error = Some(error), !.queries = @ + 1]

\* the reply if the exception were caught and a default returned
OutcomeCatching(jobs, c, frame) ==
    IF frame.error.some THEN [ status |-> "returned", value |-> <<>> ]
    ELSE [ status |-> "returned", value |-> Alone(jobs, c) ]

\* what the caller gets: the exception of the store, or the value built
\* from the answers of the queries
Outcome(jobs, c, frame) ==
    IF frame.error.some THEN [ status |-> "raised", value |-> frame.error.val ]
    ELSE IF c.operation = "trending_skills"
    THEN LET alone == Alone(jobs, c)
         IN  [ status |-> "returned",
               value |-> [ alone EXCEPT !.trends =
                              [ k \in DOMAIN alone.trends |->
                                  [ alone.trends[k] EXCEPT
                                      !.growth_rate = frame.acc[k],
                                      !.trend = TrendLabel(frame.acc[k]) ] ] ] ]
    ELSE [ status |-> "returned", value |-> Alone(jobs, c) ]

InitSessions ==
    LET \* the computations that read the store, with their arguments
        SessionRequests ==
            [ operation : {"find_matching_roles", "get_role_skills", "skill_demand",
                           "confidence", "percentile", "skill_growth", "salary_trends"},
              role : {"engineer"}, skill : {"Python"}, time_range : {"3m"} ]
            \cup [ operation : {"trending_skills"},
                   role : {""}, skill : {""}, time_range : {"1m", "1y"} ]
    IN  /\ store = SessionPostings
        /\ req \in [Clients -> SessionRequests]
        /\ op = [ r \in Clients |->
                    [ pc |-> 1, calls |-> <<>>, sessions |-> <<>>, acc |-> <<>>,
                      error |-> NoneStr, plan |-> Plan(store, req[r]), queries |-> 0 ] ]
        /\ resp = [ r \in Clients |-> [ status |-> "running", value |-> <<>> ] ]

\* db = get_db_session()
OpenSession(r) ==
    LET frame == op[r]
        plan == frame.plan
    IN  /\ ~frame.error.some
        /\ frame.pc <= Len(plan)
        /\ plan[frame.pc] = "open"
        /\ op' = [ op EXCEPT ![r] =
                     [ frame EXCEPT !.pc = frame.pc + 1,
                                    !.sessions = Append(frame.sessions, 0),
                                    !.calls = Append(frame.calls, Len(frame.sessions) + 1) ] ]
        /\ UNCHANGED <<store, req, resp>>

\* a query returns its rows or its count
QuerySucceeds(r) ==
    LET frame == op[r]
        plan == frame.plan
    IN  /\ ~frame.error.some
        /\ frame.pc <= Len(plan)
        /\ plan[frame.pc] = "query"
        /\ op' = [ op EXCEPT ![r] = [ frame EXCEPT !.pc = frame.pc + 1,
                                                   !.queries = frame.queries + 1 ] ]
        /\ store' = StoreAfterQuery(store)
        /\ UNCHANGED <<req, resp>>

\* a query raises
QueryFails(r) ==
    LET frame == op[r]
        plan == frame.plan
    IN  /\ ~frame.error.some
        /\ frame.pc <= Len(plan)
        /\ plan[frame.pc] = "query"
        /\ \E error \in StoreErrors :
              op' = [ op EXCEPT ![r] = AfterFailure(frame, error) ]
        /\ UNCHANGED <<store, req, resp>>

\* finally: db.close(), of the innermost running method, after its return
\* statement or while the exception propagates; when
\* _calculate_skill_growth returns into get_trending_skills its growth rate
\* is appended to trends
CloseSession(r) ==
    LET frame == op[r]
        plan == frame.plan
        session == frame.calls[Len(frame.calls)]
        closed == [ op EXCEPT ![r] =
                      [ frame EXCEPT
                          !.pc = IF frame.error.some THEN frame.pc ELSE frame.pc + 1,
                          !.sessions = [ frame.sessions EXCEPT ![session] = @ + 1 ],
                          !.calls = SubSeq(frame.calls, 1, Len(frame.calls) - 1) ] ]
        k == Cardinality({i \in 1..frame.pc : plan[i] = "close"})
    IN  /\ frame.calls # <<>>
        /\ \/ frame.error.some
           \/ frame.pc <= Len(plan) /\ plan[frame.pc] = "close"
        /\ op' = IF ~frame.error.some /\ Len(frame.calls) = 2
                 THEN AppendToLocal(closed, r,
                          CalculateSkillGrowth(store, Alone(store, req[r]).trends[k].skill,
                                               GetDaysFromRange(req[r].time_range),
                                               IF req[r].role = "" THEN NoneStr
                                               ELSE Some(req[r].role),
                                               NoneStr, 400))
                 ELSE closed
        /\ UNCHANGED <<store, req, resp>>

\* the computation returns to its caller, or raises
Return(r) ==
    LET frame == op[r]
    IN  /\ resp[r].status = "running"
        /\ frame.calls = <<>>
        /\ frame.error.some \/ frame.pc > Len(frame.plan)
        /\ resp' = [ resp EXCEPT ![r] = Outcome(store, req[r], frame) ]
        /\ UNCHANGED <<store, op, req>>

SpecSessions ==
    /\ InitSessions
    /\ [][ \E r \in Clients :
              \/ OpenSession(r)
              \/ QuerySucceeds(r)
              \/ QueryFails(r)
              \/ CloseSession(r)
              \/ Return(r) ]_vars

---------------------------------------------------------------------------
(* Properties of SalaryPredictor.predict, checked under SpecPredict *)

Occurrences(skills, k) == Cardinality({i \in DOMAIN skills : skills[i] = k})

\* the indices of the entries of a table whose key is a substring of text
Hits(table, text) == {i \in 1..Len(table) : Contains(text, table[i].key)}

\* the value of the first entry, in definition order, whose key is a
\* substring of text, or default if there is none
FirstHit(table, text, default) ==
    IF Hits(table, text) = {} THEN default
    ELSE table[CHOOSE i \in Hits(table, text) :
                   \A j \in Hits(table, text) : i <= j].val

\* C5: predict returns round((base * min(1 + 0.05*years, 2.0) + skill_bonus)
\* * location_multiplier, 2): base is the first baseline entry whose key is a
\* substring of the lower-cased role (100000 if none), skill_bonus the sum of
\* the fixed bonuses of the listed skills, location_multiplier the first
\* location entry whose key is a substring of the lower-cased location (1.0
\* if none or no location).  In cents and fortieths: the result is an integer
\* within half a cent of the exact value.
C5_PredictFormula ==
    op = "predict" =>
        LET base  == FirstHit(baseline_salaries, Lower(req.role), 100000)
            mult  == IF 40 + req.experience_years <= 80
                     THEN 40 + req.experience_years ELSE 80
            bonus == 15000 * Occurrences(req.skills, "Machine Learning")
                     + 10000 * Occurrences(req.skills, "AWS")
                     + 12000 * Occurrences(req.skills, "Kubernetes")
                     + 8000 * Occurrences(req.skills, "React")
                     + 5000 * Occurrences(req.skills, "Python")
            loc   == IF req.location.some
                     THEN FirstHit(location_multipliers, Lower(req.location.val), 100)
                     ELSE 100
            exact == (base * mult + 40 * bonus) * loc    \* cents * 40
        IN  2 * Abs(40 * resp - exact) <= 40

\* a role matching two baseline keys, past the 20-year saturation, a listed
\* and an unlisted skill, a location matched by substring
C5_Witness ==
    /\ op = "predict"
    /\ req.role = "Senior Software Engineer"
    /\ req.experience_years = 42
    /\ req.skills = <<"AWS", "Go">>
    /\ req.location = Some("Seattle, WA")
    /\ resp = 28750000

C6_IsScenario ==
    /\ op = "predict"
    /\ req.skills = <<"Python", "AWS">>
    /\ req.experience_years = 6
    /\ req.role = "Software Engineer"
    /\ req.location = Some("Seattle")

\* C6 as stated: predict(["Python","AWS"], 3, "Software Engineer", "Seattle")
\* returns 164375.0 (base 100000)
C6_ScenarioAsStated == C6_IsScenario => resp = 16437500

\* C6 amended: the scenario returns 176875.0: the base of "Software Engineer"
\* is the table's 110000, times 1.15, plus 5000 and 10000, times 1.25
C6_Scenario ==
    C6_IsScenario =>
        /\ resp = 17687500
        /\ resp * 100 = (110000 * 115 + 100 * (5000 + 10000)) * 125

C6_Witness == C6_IsScenario /\ resp > 0

\* C8: with skills, role and location fixed, predict is non-decreasing in
\* experience_years on [0, 20] (each half-year step does not lower it), and
\* from 20 years on it returns the value at 20 years
C8_MonotoneThenFlat ==
    op = "predict" =>
        /\ req.experience_years < 40 =>
              resp <= Predict(req.skills, req.experience_years + 1,
                              req.role, req.location)
        /\ req.experience_years >= 40 =>
              resp = Predict(req.skills, 40, req.role, req.location)

\* a request past 20 years whose result is above the result at 0 years
C8_Witness ==
    /\ op = "predict"
    /\ req.experience_years > 40
    /\ resp > Predict(req.skills, 0, req.role, req.location)

---------------------------------------------------------------------------
(* Properties of CareerService._find_matching_roles, checked under SpecCareer *)

\* record i of the store has a non-empty required_skills set
Scored(i) == ToSet(store[i].required_skills) # {}

\* the records of a title that have a non-empty required_skills set
ScoredOf(title) == {i \in DOMAIN store : store[i].title = title /\ Scored(i)}

MinOf(S) == CHOOSE i \in S : \A j \in S : i <= j
MaxOf(S) == CHOOSE i \in S : \A j \in S : i >= j

\* where the scan first meets a title, in any record
FirstSeen(title) == MinOf({i \in DOMAIN store : store[i].title = title})

\* where the scan first meets a title in a record it scores
FirstScored(title) == MinOf(ScoredOf(title))

Returned == op = "find_matching_roles"

\* C1 as stated: at most 10 entries, non-increasing match_score, and roles of
\* equal match_score in the order in which the scan first met their titles
C1_TiesByFirstSeen ==
    Returned =>
        /\ Len(resp) <= 10
        /\ \A i, j \in DOMAIN resp :
              i < j =>
                 /\ FracGE(resp[i].match_score, resp[j].match_score)
                 /\ FracEq(resp[i].match_score, resp[j].match_score)
                       => FirstSeen(resp[i].role) < FirstSeen(resp[j].role)

\* C1 amended: at most 10 entries, non-increasing match_score, and roles of
\* equal match_score in the order in which the scan first met their titles
\* in a record with a non-empty required_skills set
C1_TopTenOrdered ==
    Returned =>
        /\ Len(resp) <= 10
        /\ \A i, j \in DOMAIN resp :
              i < j =>
                 /\ FracGE(resp[i].match_score, resp[j].match_score)
                 /\ FracEq(resp[i].match_score, resp[j].match_score)
                       => FirstScored(resp[i].role) < FirstScored(resp[j].role)

\* more than 10 titles were scored, 10 are returned, two of them tie, and
\* their scores are not all equal
C1_Witness ==
    /\ Returned
    /\ Cardinality({store[i].title : i \in {k \in DOMAIN store : Scored(k)}}) > 10
    /\ Len(resp) = 10
    /\ \E i, j \in DOMAIN resp :
          i < j /\ FracEq(resp[i].match_score, resp[j].match_score)
    /\ ~FracEq(resp[1].match_score, resp[10].match_score)

StatedScore(job, skills, h) ==
    LET required == ToSet(job.required_skills)
        m == Cardinality(required \cap ToSet(skills))
        n == Cardinality(required)
        d == IF job.experience_required >= h
             THEN job.experience_required - h ELSE h - job.experience_required
    IN  IF d >= 20 THEN Frac(7 * m, 10 * n)
        ELSE Frac(7 * m * 20 + 3 * (20 - d) * n, 10 * n * 20)

\* C3: every record with non-empty required_skills scores
\* 0.7*|required n profile|/|required| + 0.3*max(0, 1 - |delta|/10); every
\* reported match_score is such a score and lies in [0,1]; every reported role
\* has a record with non-empty required_skills, and only those are counted
C3_ScoreFormula ==
    Returned =>
        /\ \A i \in DOMAIN store :
              Scored(i) =>
                 FracEq(TotalScore(store[i], req.skills, req.experience_years),
                        StatedScore(store[i], req.skills, req.experience_years))
        /\ \A k \in DOMAIN resp :
              /\ ScoredOf(resp[k].role) # {}
              /\ resp[k].count = Cardinality(ScoredOf(resp[k].role))
              /\ \E i \in ScoredOf(resp[k].role) :
                    FracEq(resp[k].match_score,
                           StatedScore(store[i], req.skills, req.experience_years))
              /\ 0 <= resp[k].match_score.num
              /\ resp[k].match_score.num <= resp[k].match_score.den
              /\ resp[k].match_score.den > 0

\* a reported role whose record is more than 10 years away from the profile,
\* and a title with only empty required_skills that is not reported
C3_Witness ==
    /\ Returned
    /\ \E k \in DOMAIN resp :
          Abs(store[FirstScored(resp[k].role)].experience_required
                 - req.experience_years) > 20
    /\ \E i \in DOMAIN store :
          /\ ScoredOf(store[i].title) = {}
          /\ \A k \in DOMAIN resp : resp[k].role # store[i].title

RECURSIVE SumSalaries(_)
SumSalaries(S) ==
    IF S = {} THEN 0
    ELSE LET i == CHOOSE i \in S : TRUE
         IN  store[i].salary.val + SumSalaries(S \ {i})

\* C4: the avg_salary of a role is the sum of the non-null salaries of its
\* records divided by the number of records that have a salary
C4_AvgOverSalaried ==
    Returned =>
        \A k \in DOMAIN resp :
            LET salaried == {i \in ScoredOf(resp[k].role) : store[i].salary.some}
            IN  IF salaried = {} THEN resp[k].avg_salary.num = 0
                ELSE resp[k].avg_salary.num * Cardinality(salaried)
                        = SumSalaries(salaried) * resp[k].avg_salary.den

---------------------------------------------------------------------------
(* Properties of SalaryService, checked under SpecSalary and SpecFactors *)

\* C7: predicted_salary is the base prediction predict(skills, years, role,
\* location) times the company-size multiplier times the education
\* multiplier (each 1.0 when absent or not recognized), rounded to 2
\* decimals, and nothing else, for every location
C7_OnlySizeAndEducation ==
    op = "predict_salary" =>
        LET base == Predict(req.skills, req.experience_years, req.role,
                            Some(req.location))
            scaled == BigTimes(BigTimes(ToBig(base),
                                        CompanySizeAdjustment(req.company_size), 0),
                               EducationAdjustment(req.education), 0)
        IN  resp.predicted_salary = RoundSplit(BigSplit(scaled, 2), 10000)

\* C9: the five percentages (tenths of a percent here) sum to 100.0 +- 0.1
C9_FactorsSumTo100 ==
    op = "analyze_salary_factors" =>
        Abs(resp.experience + resp.skills + resp.location
               + resp.company_size + resp.education - 1000) <= 1

\* the records whose salary the percentile query of the role selects
Historical(role) ==
    {i \in DOMAIN store : TitleILike(store[i].title, role) /\ store[i].salary.some}

\* the percentile (tenths of a percent) that the claim gives a salary
\* (in cents, [whole, frac]) among the historical salaries of a role
IsPercentileOf(p, salary, role) ==
    LET below == {i \in Historical(role) :
                     \/ 100 * store[i].salary.val < salary.whole
                     \/ /\ 100 * store[i].salary.val = salary.whole
                        /\ salary.frac # 0}
        total == Cardinality(Historical(role))
    IN  IF total = 0 THEN p = 500
        ELSE /\ 2 * Abs(p * total - 1000 * Cardinality(below)) <= total
             /\ 0 <= p
             /\ p <= 1000

\* C10: the percentile is 100 * (historical salaries of the role strictly
\* below the given salary) / (historical non-null salaries of the role),
\* rounded to 1 decimal and within [0, 100]; a historical salary equal to the
\* given one is not counted; with no historical salary it is exactly 50.0
C10_Percentile ==
    /\ op = "calculate_market_percentile" =>
          IsPercentileOf(resp, req.salary, req.role)
    /\ op = "predict_salary" =>
          IsPercentileOf(resp.market_percentile,
                         AdjustedSalary(req.skills, req.experience_years, req.role,
                                        req.location, req.company_size,
                                        req.education),
                         req.role)

\* a historical salary equals the given salary, others are below and above
C10_Witness ==
    /\ op = "calculate_market_percentile"
    /\ \E i \in Historical(req.role) :
          100 * store[i].salary.val = req.salary.whole /\ req.salary.frac = 0
    /\ \E i \in DOMAIN store :
          TitleILike(store[i].title, req.role) /\ ~store[i].salary.some
    /\ resp > 0
    /\ resp < 1000

---------------------------------------------------------------------------
(* Properties of SalaryService._calculate_confidence, checked under
   SpecConfidence *)

\* the rows the confidence query of a request selects: the title matches
\* %role% and experience_required is within 2 years (4 half-years) of
\* experience_years, both ends included
SimilarJobs(r) ==
    {i \in DOMAIN store :
        /\ TitleILike(store[i].title, r.role)
        /\ store[i].experience_required >= r.experience_years - 4
        /\ store[i].experience_required <= r.experience_years + 4}

\* C11: the confidence score is a step function of the number n of records
\* whose title matches the role and whose experience_required is within
\* [experience_years - 2, experience_years + 2]: 0.95 if n > 100, 0.85 if
\* 50 < n <= 100, 0.75 if 20 < n <= 50, 0.65 otherwise
C11_ConfidenceSteps ==
    op = "calculate_confidence" =>
        LET n == Cardinality(SimilarJobs(req))
        IN  /\ n > 100 => resp = 95
            /\ (50 < n /\ n <= 100) => resp = 85
            /\ (20 < n /\ n <= 50) => resp = 75
            /\ n <= 20 => resp = 65

\* exactly 100 similar records, one of them at the edge of the experience
\* range, and a record of the role outside the range: the score is 0.85
C11_Witness ==
    /\ op = "calculate_confidence"
    /\ Cardinality(SimilarJobs(req)) = 100
    /\ \E i \in SimilarJobs(req) :
          store[i].experience_required = req.experience_years - 4
    /\ \E i \in DOMAIN store \ SimilarJobs(req) : TitleILike(store[i].title, req.role)
    /\ resp = 85

---------------------------------------------------------------------------
(* Properties of CareerService._analyze_skill_gaps, checked under SpecGaps *)

\* the first (at most) five recommended roles of the reply
TopRoles == 1..Min(5, Len(resp.recommended_roles))

\* the skills of a recommended role that the profile lacks
Missing(k) == resp.recommended_roles[k].required_skills \ ToSet(req.skills)

\* the gap entries of the reply for the role named by entry k
GapsOf(k) ==
    {j \in DOMAIN resp.skill_gaps :
        resp.skill_gaps[j].role = resp.recommended_roles[k].role}

\* C12: analyze_skill_gaps, applied to at most the first 5 recommended
\* roles, emits for each role exactly one entry when required_skills(role)
\* minus current_skills is non-empty and none otherwise; missing_skills is
\* that difference, gap_count its size, and priority is "low" for
\* gap_count <= 2, "medium" for 3..5 and "high" for >= 6
C12_SkillGaps ==
    op = "analyze_skill_gaps" =>
        /\ \A k \in TopRoles :
              IF Missing(k) = {} THEN GapsOf(k) = {}
              ELSE /\ Cardinality(GapsOf(k)) = 1
                   /\ \A j \in GapsOf(k) :
                         LET gap == resp.skill_gaps[j]
                         IN  /\ gap.missing_skills = Missing(k)
                             /\ gap.gap_count = Cardinality(Missing(k))
                             /\ gap.gap_count <= 2 => gap.priority = "low"
                             /\ (3 <= gap.gap_count /\ gap.gap_count <= 5)
                                    => gap.priority = "medium"
                             /\ gap.gap_count >= 6 => gap.priority = "high"
        /\ \A j \in DOMAIN resp.skill_gaps : \E k \in TopRoles : j \in GapsOf(k)

\* more than five roles are recommended; among the first five one has no
\* gap, one a "low" gap, one a gap of 3 and one a gap of 6, and a role
\* after the fifth lacks skills too
C12_Witness ==
    /\ op = "analyze_skill_gaps"
    /\ Len(resp.recommended_roles) > 5
    /\ \E k \in TopRoles : Missing(k) = {}
    /\ \E j \in DOMAIN resp.skill_gaps : resp.skill_gaps[j].priority = "low"
    /\ \E j \in DOMAIN resp.skill_gaps :
          resp.skill_gaps[j].gap_count = 3 /\ resp.skill_gaps[j].priority = "medium"
    /\ \E j \in DOMAIN resp.skill_gaps :
          resp.skill_gaps[j].gap_count = 6 /\ resp.skill_gaps[j].priority = "high"
    /\ \E k \in 6..Len(resp.recommended_roles) : Missing(k) # {}

---------------------------------------------------------------------------
(* Properties of the skills service, checked under SpecSkills *)

\* the rows whose title matches the requested role
RoleRows == MatchingRows(store, req.target_role)

\* the number of rows of S whose required_skills name the skill
RowsWith(S, skill) ==
    Cardinality({i \in S : \E j \in DOMAIN store[i].required_skills :
                               store[i].required_skills[j] = skill})

\* the skills named by at least 60% of the rows of S
FrequentSkills(S) ==
    {skill \in UNION {ToSet(store[i].required_skills) : i \in S} :
        100 * RowsWith(S, skill) >= 60 * Cardinality(S)}

TableDifficulty(skill) ==
    IF \E k \in DOMAIN difficulty_map : difficulty_map[k].key = skill
    THEN difficulty_map[CHOOSE k \in DOMAIN difficulty_map :
                            difficulty_map[k].key = skill].val
    ELSE 3

\* an entry of a prioritized list is the one the claim describes for its
\* skill and the requested role
IsPrioritized(entry) ==
    /\ entry.demand_score.num * Cardinality(RoleRows)
           = 100 * RowsWith(RoleRows, entry.skill) * entry.demand_score.den
    /\ entry.difficulty = TableDifficulty(entry.skill)
    /\ entry.estimated_learning_weeks = 2 * entry.difficulty

\* C14: prioritize_gaps returns exactly one entry per missing skill, with
\* demand_score = 100 * (role-matching records containing the skill) /
\* (role-matching records), difficulty from the static table (3 for a skill
\* not in it) and estimated_learning_weeks = 2 * difficulty, ordered by
\* non-increasing demand_score
C14_PrioritizedGaps ==
    op = "analyze_gap" =>
        LET path == resp.prioritized_learning_path
        IN  /\ Len(path) = Len(resp.critical_gaps)
            /\ \A g \in DOMAIN resp.critical_gaps :
                  Cardinality({k \in DOMAIN path :
                                  path[k].skill = resp.critical_gaps[g]}) = 1
            /\ \A k \in DOMAIN path : IsPrioritized(path[k])
            /\ \A j, k \in DOMAIN path :
                  j < k => FracGE(path[j].demand_score, path[k].demand_score)

\* four gaps with three different demand scores, one below 100 and one for
\* a skill the static table does not list
C14_Witness ==
    /\ op = "analyze_gap"
    /\ Len(resp.prioritized_learning_path) = 4
    /\ LET path == resp.prioritized_learning_path
       IN  /\ ~FracEq(path[1].demand_score, path[2].demand_score)
           /\ ~FracEq(path[3].demand_score, path[4].demand_score)
           /\ FracEq(path[4].demand_score, Frac(60, 1))
           /\ \E k \in DOMAIN path :
                 /\ \A m \in DOMAIN difficulty_map :
                       difficulty_map[m].key # path[k].skill
                 /\ path[k].difficulty = 3

\* the skills of a set with a difficulty between lo and hi
InPhase(G, lo, hi) ==
    {g \in G : lo <= TableDifficulty(g) /\ TableDifficulty(g) <= hi}

\* the demand, in percent, of a skill among the rows of the requested role
DemandOf(skill) == Frac(100 * RowsWith(RoleRows, skill), Cardinality(RoleRows))

\* a phase of a learning path holds, for the gaps G, the first cap of the
\* gaps with a difficulty between lo and hi, by non-increasing demand
IsPhase(phase, G, lo, hi, cap) ==
    LET kept == {phase.skills[k].skill : k \in DOMAIN phase.skills}
    IN  /\ Len(phase.skills) = Min(cap, Cardinality(InPhase(G, lo, hi)))
        /\ Cardinality(kept) = Len(phase.skills)
        /\ kept \subseteq InPhase(G, lo, hi)
        /\ \A k \in DOMAIN phase.skills : IsPrioritized(phase.skills[k])
        /\ \A j, k \in DOMAIN phase.skills :
              j < k => FracGE(phase.skills[j].demand_score,
                              phase.skills[k].demand_score)
        /\ \A g \in InPhase(G, lo, hi) \ kept : \A k \in kept :
              FracGE(DemandOf(k), DemandOf(g))

\* the total time the claim gives gap_count gaps
TotalTime(gap_count) ==
    IF 3 * gap_count <= 4 THEN "1 month"
    ELSE ToDecimal((3 * gap_count) \div 4) \o " months"

\* C15: generate_learning_path places each prioritized gap in at most one
\* of three phases by difficulty (<= 2, == 3, >= 4), keeps only the first
\* 3, 3 and 2 entries of each phase in prioritized order, and reports the
\* total time from weeks = 3 * gap_count over all gaps: "1 month" when
\* weeks <= 4, otherwise (weeks integer-divided by 4) months
C15_LearningPath ==
    op = "generate_learning_path" =>
        \E D \in Drops(RoleRows, Cardinality(RoleRows)
                                     - Min(100, Cardinality(RoleRows))) :
            LET G == FrequentSkills(RoleRows \ D) \ ToSet(req.current_skills)
            IN  /\ Len(resp.phases) = 3
                /\ IsPhase(resp.phases[1], G, 1, 2, 3)
                /\ IsPhase(resp.phases[2], G, 3, 3, 3)
                /\ IsPhase(resp.phases[3], G, 4, 5, 2)
                /\ resp.total_estimated_time = TotalTime(Cardinality(G))

\* four gaps of difficulty at most 2, of which phase 1 keeps three and
\* leaves out one of lower demand; the total time counts all four
C15_Witness ==
    /\ op = "generate_learning_path"
    /\ Len(resp.phases[1].skills) = 3
    /\ \A k \in 1..3 : ~FracEq(resp.phases[1].skills[k].demand_score, Frac(60, 1))
    /\ FracEq(DemandOf("Git"), Frac(60, 1))
    /\ "Git" \notin ToSet(req.current_skills)
    /\ resp.total_estimated_time = "3 months"

---------------------------------------------------------------------------
(* Properties of TrendsService, checked under SpecTrends *)

\* the postings that ask for a skill and pass the filters of a request
Asking(skill, role, location) ==
    {i \in DOMAIN store : /\ skill \in ToSet(store[i].required_skills)
                          /\ PassesFilters(store[i], role, location)}

\* their number in the second half of the window of length days before now
RecentCount(skill, days, role, location, now) ==
    Cardinality({i \in Asking(skill, role, location) :
                    /\ store[i].posted_date >= now - (days \div 2)
                    /\ store[i].posted_date <= now})

\* their number in the first half of the window
OlderCount(skill, days, role, location, now) ==
    Cardinality({i \in Asking(skill, role, location) :
                    /\ store[i].posted_date >= now - days
                    /\ store[i].posted_date < now - (days \div 2)})

\* the day window of a time_range token
WindowDays(time_range) ==
    IF time_range = "1m" THEN 30
    ELSE IF time_range = "6m" THEN 180
    ELSE IF time_range = "1y" THEN 365
    ELSE 90

\* g, in hundredths of a percent, is the growth from older to recent
IsGrowth(g, recent, older) ==
    /\ older = 0 /\ recent > 0 => g = 10000
    /\ older = 0 /\ recent = 0 => g = 0
    /\ older > 0 => 2 * Abs(g * older - 10000 * (recent - older)) <= older
    /\ g >= -10000

\* C16: the skill growth rate is exactly 100.0 when no posting falls in the
\* first half of the window and some falls in the second, exactly 0.0 when
\* both counts are 0, and 100 * (recent - older) / older rounded to 2
\* decimals otherwise; it is never below -100
C16_SkillGrowth ==
    /\ op = "calculate_skill_growth" =>
          IsGrowth(resp,
                   RecentCount(req.skill, req.days, req.role, req.location, req.now),
                   OlderCount(req.skill, req.days, req.role, req.location, req.now))
    /\ op = "get_trending_skills" =>
          \A k \in DOMAIN resp.trends :
              LET days == WindowDays(req.time_range)
              IN  IsGrowth(resp.trends[k].growth_rate,
                           RecentCount(resp.trends[k].skill, days, req.role,
                                       req.location, req.now),
                           OlderCount(resp.trends[k].skill, days, req.role,
                                      req.location, req.now))

\* a skill asked for in the second half of the window only: growth 100.0
C16_Witness ==
    /\ op = "calculate_skill_growth"
    /\ OlderCount(req.skill, req.days, req.role, req.location, req.now) = 0
    /\ RecentCount(req.skill, req.days, req.role, req.location, req.now) > 1
    /\ resp = 10000

\* reachable cases of the growth rate
C16_CaseBothZero ==
    /\ op = "calculate_skill_growth"
    /\ OlderCount(req.skill, req.days, req.role, req.location, req.now) = 0
    /\ RecentCount(req.skill, req.days, req.role, req.location, req.now) = 0
    /\ Asking(req.skill, req.role, req.location) # {}
    /\ resp = 0

C16_CaseRounded ==
    /\ op = "calculate_skill_growth"
    /\ resp = -6667

C16_CaseFloor ==
    /\ op = "calculate_skill_growth"
    /\ resp = -10000

\* the postings of the window of a get_trending_skills request that pass
\* its role and location filters
InWindow ==
    {i \in DOMAIN store :
        /\ store[i].posted_date >= req.now - WindowDays(req.time_range)
        /\ PassesFilters(store[i], req.role, req.location)}

\* the occurrences of a skill among them
OccurrencesInWindow(skill) ==
    Cardinality({i \in InWindow : skill \in ToSet(store[i].required_skills)})

C17_CaseMixed ==
    /\ op = "get_trending_skills"
    /\ Len(resp.trends) >= 3
    /\ resp.trends[1].count > resp.trends[Len(resp.trends)].count
    /\ \E k \in DOMAIN resp.trends : resp.trends[k].trend = "rising"
    /\ \E k \in DOMAIN resp.trends : resp.trends[k].growth_rate < 0
    /\ Truthy(req.role) /\ Truthy(req.location)

\* the salary-bearing postings of the window of a get_salary_trends request
\* that match its role and pass its location filter
SalaryWindow ==
    {i \in DOMAIN store :
        /\ TitleILike(store[i].title, req.role)
        /\ store[i].posted_date >= req.now - WindowDays(req.time_range)
        /\ store[i].salary.some
        /\ Truthy(req.location) =>
              LikeMatch(Lower(store[i].location), Lower("%" \o req.location.val \o "%"))}

RECURSIVE SampleSizes(_, _)
SampleSizes(trends, k) ==
    IF k > Len(trends) THEN 0 ELSE trends[k].sample_size + SampleSizes(trends, k + 1)

\* C18: the time_range token stands for a window of 30 days for "1m", 90
\* for "3m", 180 for "6m", 365 for "1y" and 90 for every other token, in
\* get_trending_skills and in get_salary_trends alike: the reply is made of
\* exactly the postings of that window
C18_TimeRange ==
    /\ op = "get_trending_skills" =>
          LET asked == UNION {ToSet(store[i].required_skills) : i \in InWindow}
          IN  /\ \A k \in DOMAIN resp.trends :
                    /\ resp.trends[k].skill \in asked
                    /\ resp.trends[k].count = OccurrencesInWindow(resp.trends[k].skill)
              /\ req.limit >= Cardinality(asked) =>
                    {resp.trends[k].skill : k \in DOMAIN resp.trends} = asked
    /\ op = "get_salary_trends" =>
          IF SalaryWindow = {} THEN "trends" \notin DOMAIN resp
          ELSE /\ "trends" \in DOMAIN resp
               /\ SampleSizes(resp.trends, 1) = Cardinality(SalaryWindow)

\* an unrecognized token on a table with salaries posted within the last
\* 30 days, between 30 and 90 days ago and between 90 and 180 days ago
C18_Witness ==
    /\ op = "get_salary_trends"
    /\ req.time_range = "2w"
    /\ \E i \in SalaryWindow : store[i].posted_date >= req.now - 30
    /\ \E i \in SalaryWindow : store[i].posted_date < req.now - 30
    /\ \E i \in DOMAIN store :
          /\ TitleILike(store[i].title, req.role) /\ store[i].salary.some
          /\ store[i].posted_date < req.now - 90
          /\ store[i].posted_date >= req.now - 180

\* the same for get_trending_skills
C18_CaseTrending ==
    /\ op = "get_trending_skills"
    /\ req.time_range = "2w"
    /\ req.limit = 20
    /\ \E i \in InWindow : store[i].posted_date < req.now - 30
    /\ \E i \in DOMAIN store :
          /\ store[i].posted_date < req.now - 90
          /\ store[i].posted_date >= req.now - 180
          /\ ToSet(store[i].required_skills)
                \cap {resp.trends[k].skill : k \in DOMAIN resp.trends} = {}

\* the mean salary, as a fraction, of the postings of the salary window
\* posted in the month of posting i
MonthMean(i) ==
    LET month == {j \in SalaryWindow :
                     Strftime(store[j].posted_date) = Strftime(store[i].posted_date)}
    IN  Frac(SalarySum(store, month), Cardinality(month))

\* pct, in hundredths of a percent, is the change from the mean of the
\* first month present to the mean of the last, rounded to 2 decimals
IsOverallChange(pct) ==
    LET first == CHOOSE i \in SalaryWindow :
                    \A j \in SalaryWindow : store[i].posted_date <= store[j].posted_date
        last == CHOOSE i \in SalaryWindow :
                    \A j \in SalaryWindow : store[i].posted_date >= store[j].posted_date
        f == MonthMean(first)
        l == MonthMean(last)
    IN  IF Strftime(store[first].posted_date) = Strftime(store[last].posted_date)
        THEN pct = 0
        ELSE 2 * Abs(pct * f.num * l.den
                        - 10000 * (l.num * f.den - f.num * l.den))
                <= f.num * l.den

\* C20: get_salary_trends reports the overall percentage change between the
\* mean salary of the first and of the last month present, and 0 whenever
\* fewer than 2 months are present, also when no posting matches: the
\* absence of data is a neutral result, not an error
C20_SalaryTrends ==
    op = "get_salary_trends" =>
        /\ "error" \notin DOMAIN resp
        /\ "overall_change_pct" \in DOMAIN resp
        /\ IF SalaryWindow = {} THEN resp.overall_change_pct = 0
           ELSE IsOverallChange(resp.overall_change_pct)

\* the part of C20 that holds: whenever some posting matches, the change
\* between the first and the last month present is reported, and 0 for a
\* single month
C20_WhenDataPresent ==
    op = "get_salary_trends" /\ SalaryWindow # {} =>
        /\ "error" \notin DOMAIN resp
        /\ IsOverallChange(resp.overall_change_pct)

\* a request that matches no posting is answered with an error
C20_CaseNoData ==
    /\ op = "get_salary_trends"
    /\ SalaryWindow = {}
    /\ resp = [error |-> "No data found"]

\* three months present and a rounded change; a falling change; a single
\* month
C20_CaseThreeMonths ==
    /\ op = "get_salary_trends"
    /\ "trends" \in DOMAIN resp
    /\ Len(resp.trends) >= 3
    /\ resp.overall_change_pct % 100 # 0

C20_CaseFalling ==
    /\ op = "get_salary_trends"
    /\ "trends" \in DOMAIN resp
    /\ resp.overall_change_pct < 0

C20_CaseSingleMonth ==
    /\ op = "get_salary_trends"
    /\ "trends" \in DOMAIN resp
    /\ Len(resp.trends) = 1
    /\ resp.trends[1].sample_size >= 2
    /\ resp.overall_change_pct = 0

---------------------------------------------------------------------------
(* Properties of the forecaster, checked under SpecForecast *)

\* the base and the growth rate, in hundredths, of a skill in the fixed table
TableBase(skill) ==
    IF skill = "Machine Learning" THEN 100
    ELSE IF skill = "Kubernetes" THEN 80
    ELSE IF skill = "React" THEN 120
    ELSE IF skill = "Python" THEN 150
    ELSE 100

TableGrowth(skill) ==
    IF skill = "Machine Learning" THEN 15
    ELSE IF skill = "Kubernetes" THEN 20
    ELSE IF skill = "React" THEN 10
    ELSE IF skill = "Python" THEN 8
    ELSE 10

\* f is a forecast of a skill over months >= 1 months
IsForecast(f, skill, months) ==
    /\ "forecasts" \in DOMAIN f
    /\ f.skill = skill
    /\ Len(f.forecasts) = months
    /\ \A k \in 1..months :
          /\ f.forecasts[k].month = k
          /\ f.forecasts[k].predicted_demand
                = [base |-> TableBase(skill), growth_rate |-> TableGrowth(skill),
                   month |-> k]
    /\ f.summary.trend = (IF TableGrowth(skill) > 10 THEN "growing" ELSE "stable")

\* C19: for months >= 1 the forecast of a skill has exactly `months` entries
\* numbered 1..months in increasing order, with base and growth_rate from
\* the fixed table (100 and 0.10 for an unlisted skill), and its label is
\* "growing" exactly when growth_rate > 0.10, so "stable" at exactly 0.10
C19_Forecast ==
    /\ op = "forecaster_predict" /\ req.months >= 1 =>
          IsForecast(resp, req.skill, req.months)
    /\ op = "forecast_demand" /\ req.months >= 1 =>
          /\ "forecasts" \in DOMAIN resp
          /\ req.skills.some /\ req.skills.val # <<>> =>
                DOMAIN resp.forecasts = ToSet(req.skills.val)
          /\ \A s \in DOMAIN resp.forecasts :
                IsForecast(resp.forecasts[s], s, req.months)

\* a two-year forecast of a growing skill, of React and of an unlisted skill
C19_Witness ==
    /\ op = "forecast_demand"
    /\ req.months = 24
    /\ DOMAIN resp.forecasts = {"Machine Learning", "React", "Rust"}
    /\ resp.forecasts["Machine Learning"].summary.trend = "growing"
    /\ resp.forecasts["React"].summary.trend = "stable"
    /\ resp.forecasts["Rust"].summary.trend = "stable"
    /\ resp.forecasts["Rust"].forecasts[24].predicted_demand.base = 100
    /\ Len(resp.forecasts["React"].forecasts) = 24

\* the forecast of the trending skills of the table; a horizon of 0 months
C19_CaseTrending ==
    /\ op = "forecast_demand"
    /\ ~req.skills.some
    /\ req.months = 3
    /\ Cardinality(DOMAIN resp.forecasts) >= 4

C19_CaseNoMonths ==
    /\ op = "forecaster_predict"
    /\ req.months = 0
    /\ resp = [raised |-> "IndexError"]

---------------------------------------------------------------------------
(* The order of the baseline table, checked under SpecPredict *)

\* the result of predict for a request if its base salary were base
PredictedFrom(base) ==
    LET mult == IF 40 + req.experience_years <= 80
                THEN 40 + req.experience_years ELSE 80
        exact == (base * mult + 40 * SkillBonus(req.skills))
                    * LocationMultiplier(req.location)
    IN  {cents \in {exact \div 40, exact \div 40 + 1} : 2 * Abs(40 * cents - exact) <= 40}

\* C29: "software engineer" stands before "senior software engineer" in the
\* baseline table and the first key found in the role wins, so every role
\* that contains "senior software engineer" in any letter case has the base
\* salary 110000, and no role at all has the base salary 150000
C29_SeniorShadowed ==
    op = "predict" =>
        /\ resp \notin PredictedFrom(150000)
        /\ Contains(Lower(req.role), "senior software engineer") =>
              resp \in PredictedFrom(110000)

\* a senior software engineer role in capitals, predicted from 110000
C29_Witness ==
    /\ op = "predict"
    /\ req.role = "Staff / SENIOR SOFTWARE ENGINEER II"
    /\ req.skills = <<>>
    /\ req.experience_years = 0
    /\ ~req.location.some
    /\ resp = 11000000

---------------------------------------------------------------------------
(* Skill validation and extraction, checked under SpecExtract *)

\* the names of the taxonomy
TaxonomyNames ==
    UNION {ToSet(skill_categories[c]) : c \in DOMAIN skill_categories}

\* C21: validate_skills rejects nothing: the invalid list is empty, and the
\* valid list has one entry for each entry of the input, in the order of
\* the input: the taxonomy's spelling when the entry equals a taxonomy name
\* up to letter case, the entry itself otherwise
C21_ValidateSkills ==
    op = "validate_skills" =>
        /\ resp.invalid_skills = <<>>
        /\ Len(resp.valid_skills) = Len(req.skills)
        /\ \A n \in DOMAIN req.skills :
              LET same == {t \in TaxonomyNames : Lower(t) = Lower(req.skills[n])}
              IN  IF same # {} THEN resp.valid_skills[n] \in same
                  ELSE resp.valid_skills[n] = req.skills[n]

\* a taxonomy name in capitals before an unknown skill
C21_Witness ==
    /\ op = "validate_skills"
    /\ req.skills = <<"NEXT.JS", "Cobol">>
    /\ resp = [ valid_skills |-> <<"Next.js", "Cobol">>, invalid_skills |-> <<>> ]

\* the technical and the soft vocabulary
Vocabulary ==
    UNION {ToSet(skill_patterns[c]) : c \in DOMAIN skill_patterns}
        \cup ToSet(soft_skill_keywords)

\* entry stands in text as whole words, in any letter case
Occurs(text, entry) ==
    \E i \in 1..(Len(text) - Len(entry) + 1) :
        /\ Lower(SubSeq(text, i, i + Len(entry) - 1)) = Lower(entry)
        /\ WordBoundary(text, i)
        /\ WordBoundary(text, i + Len(entry))

\* C22: extract on the empty text, and on any text in which no entry of the
\* vocabulary matches (white space read as extract reads it), returns an
\* empty technical and an empty soft list
C22_NothingFound ==
    ( /\ op = "extract"
      /\ \/ req.text = ""
         \/ \A entry \in Vocabulary : ~Occurs(PreprocessText(req.text), entry) )
        => resp = [ technical |-> <<>>, soft |-> <<>> ]

\* a text of words that only begin like a vocabulary entry
C22_Witness ==
    /\ op = "extract"
    /\ req.text = "pythonic cooking"
    /\ resp = [ technical |-> <<>>, soft |-> <<>> ]

\* the empty text
C22_CaseEmpty ==
    /\ op = "extract"
    /\ req.text = ""
    /\ resp = [ technical |-> <<>>, soft |-> <<>> ]

\* the canonical forms
CanonicalForms ==
    {"NestJS", "NextJS", "NodeJS", "C++", ".NET", "ASP.NET", "VB.NET", "CI/CD"}

\* C23: _normalize_skill_name is idempotent on every skill string that the
\* technical patterns can produce, and every canonical form of its ordered
\* rule table is a fixed point
C23_NormalizeIdempotent ==
    /\ op = "normalize_skill_name" => NormalizeSkillName(resp) = resp
    /\ op = "extract" =>
          \A k \in DOMAIN resp.technical :
              NormalizeSkillName(resp.technical[k]) = resp.technical[k]
    /\ op = "idle" => \A form \in CanonicalForms : NormalizeSkillName(form) = form

\* "asp.net" is rewritten by the rule for .NET and then by the rule for
\* ASP.NET
C23_Witness ==
    /\ op = "normalize_skill_name"
    /\ req.skill = "asp.net"
    /\ resp = "ASP.NET"

\* a canonical form handed to the rules
C23_CaseCanonical ==
    /\ op = "normalize_skill_name"
    /\ req.skill = "CI/CD"
    /\ resp = "CI/CD"

\* C27: the technical_skills that extract_skills returns hold no skill
\* twice, whatever the text and in whatever letter cases it names a skill,
\* and counts.technical is the number of distinct technical skills returned
C27_NoDuplicates ==
    op = "extract_skills" =>
        /\ \A j, k \in DOMAIN resp.technical_skills :
              resp.technical_skills[j] = resp.technical_skills[k] => j = k
        /\ resp.counts.technical = Cardinality(ToSet(resp.technical_skills))

\* what extract_skills does return: one entry for each spelling of a skill
\* found in the text, so that a taxonomy skill named in two letter cases
\* stands twice, and counts.technical is the length of that list
C27_OnePerSpelling ==
    op = "extract_skills" =>
        /\ Len(resp.technical_skills)
              = Cardinality(ToSet(Extract(req.job_description).technical))
        /\ resp.counts.technical = Len(resp.technical_skills)

\* "python" and "Python" in one text
C27_CaseTwoSpellings ==
    /\ op = "extract_skills"
    /\ req.job_description = "python Python"
    /\ resp.technical_skills = <<"Python", "Python">>
    /\ resp.counts.technical = 2

---------------------------------------------------------------------------
(* The reply of analyze_gap, checked under SpecSkills *)

\* the required sets that _get_role_skills can reply for the request: one
\* for each page of at most 100 matching rows
RequiredSets ==
    {ToSet(GetRoleSkills(store, sample).required) :
        sample \in Samples(MatchingRows(store, req.target_role))}

\* matching_skills and critical_gaps split the required set, the learning
\* path has one entry for each critical gap, and the demand of a gap is
\* computed over at least one row that matches the role
C30_GapsOfRequired(required) ==
    /\ resp.matching_skills \cap ToSet(resp.critical_gaps) = {}
    /\ resp.matching_skills \cup ToSet(resp.critical_gaps) = required
    /\ Len(resp.prioritized_learning_path) = Len(resp.critical_gaps)
    /\ \A gap \in ToSet(resp.critical_gaps) :
          Cardinality({k \in DOMAIN resp.prioritized_learning_path :
                          resp.prioritized_learning_path[k].skill = gap}) = 1
    /\ resp.critical_gaps # <<>> => MatchingRows(store, req.target_role) # {}

\* C30 as stated: in every analyze_gap result, matching_skills and
\* critical_gaps are disjoint and together the required set of the role,
\* match_percentage is 100 * |matching_skills| / |required| (0 when nothing
\* is required), prioritized_learning_path has one entry for each critical
\* gap, and the skill demand is never computed over zero matching rows
C30_AsStated ==
    op = "analyze_gap" =>
        \E required \in RequiredSets :
            /\ C30_GapsOfRequired(required)
            /\ IF required = {} THEN resp.match_percentage = 0
               ELSE resp.match_percentage * Cardinality(required)
                       = 1000 * Cardinality(resp.matching_skills)

\* C30, amended: the same, with match_percentage being that quotient
\* rounded to one decimal place
C30_GapAnalysis ==
    op = "analyze_gap" =>
        \E required \in RequiredSets :
            /\ C30_GapsOfRequired(required)
            /\ IF required = {} THEN resp.match_percentage = 0
               ELSE 2 * Abs(resp.match_percentage * Cardinality(required)
                               - 1000 * Cardinality(resp.matching_skills))
                       <= Cardinality(required)

\* some required skills are had and some are lacking, and the quotient has
\* more than one decimal
C30_Witness ==
    /\ op = "analyze_gap"
    /\ resp.matching_skills # {}
    /\ resp.critical_gaps # <<>>
    /\ \A required \in RequiredSets :
          resp.match_percentage * Cardinality(required)
              # 1000 * Cardinality(resp.matching_skills)

\* no record matches the role: nothing is required
C30_CaseNoRecord ==
    /\ op = "analyze_gap"
    /\ MatchingRows(store, req.target_role) = {}
    /\ resp.match_percentage = 0
    /\ resp.critical_gaps = <<>>
    /\ resp.prioritized_learning_path = <<>>

---------------------------------------------------------------------------
(* Failures, sessions and concurrent requests, checked under SpecSessions *)

\* the queries among the first n steps of the plan of a frame
QueriesUpTo(frame, n) ==
    Cardinality({i \in 1..Min(n, Len(frame.plan)) : frame.plan[i] = "query"})

\* the sessions of a frame that are open
OpenSessions(frame) == {s \in DOMAIN frame.sessions : frame.sessions[s] = 0}

\* C24: when a query of the store fails during a computation, the failure
\* reaches the caller unchanged: the computation issues no query again or
\* further, does not catch the failure and returns no value in its place
C24_FailurePropagates ==
    \A r \in Clients :
        LET frame == op[r]
        IN  /\ frame.error.some =>
                  /\ frame.error.val \in StoreErrors
                  /\ frame.plan[frame.pc] = "query"
                  /\ frame.queries = QueriesUpTo(frame, frame.pc)
                  /\ resp[r].status \in {"running", "raised"}
            /\ ~frame.error.some => frame.queries = QueriesUpTo(frame, frame.pc - 1)
            /\ resp[r].status = "raised" =>
                  frame.error.some /\ resp[r].value = frame.error.val
            /\ resp[r].status = "returned" => ~frame.error.some

\* a count query of _calculate_skill_growth fails inside
\* get_trending_skills, and get_trending_skills raises what the store raised
C24_Witness ==
    /\ req[1].operation = "trending_skills"
    /\ op[1].pc > 2
    /\ resp[1] = [ status |-> "raised", value |-> "TimeoutError" ]

\* each of the eight computations raises when its query fails
C24_CaseEveryComputation ==
    /\ req[1].operation = "percentile"
    /\ resp[1] = [ status |-> "raised", value |-> "OperationalError" ]
    /\ req[2].operation = "find_matching_roles"
    /\ resp[2] = [ status |-> "raised", value |-> "TimeoutError" ]

\* C25: every computation of the services leaves the record store as it
\* was: whatever the services have done, the records and all their fields
\* are those of the beginning
C25_StoreUnchanged == store = SessionPostings

\* two computations have run their queries and returned
C25_Witness ==
    /\ store = SessionPostings
    /\ req[1].operation = "trending_skills"
    /\ req[2].operation = "skill_demand"
    /\ \A r \in Clients : resp[r].status = "returned" /\ op[r].queries >= 2

\* C26: two requests served at the same time by the same service instances,
\* their steps interleaved in any way, each return what they return alone
\* over the same store: the value depends on the store and on the request's
\* own arguments only
C26_AsAlone ==
    \A r \in Clients :
        resp[r].status = "returned" => resp[r].value = Alone(store, req[r])

\* one get_trending_skills has returned while another, with another time
\* range, is inside its second _calculate_skill_growth
C26_Witness ==
    /\ req[1] = [ operation |-> "trending_skills", role |-> "", skill |-> "",
                  time_range |-> "1y" ]
    /\ req[2] = [ operation |-> "trending_skills", role |-> "", skill |-> "",
                  time_range |-> "1m" ]
    /\ resp[1].status = "returned"
    /\ Len(resp[1].value.trends) = 2
    /\ resp[2].status = "running"
    /\ Len(op[2].calls) = 2
    /\ Len(op[2].acc) = 1

\* C28: every session a computation opens is closed exactly once before the
\* computation returns or raises, on every path; get_trending_skills has at
\* most two sessions open at a time, its own and that of the running
\* _calculate_skill_growth, any other computation one; when a computation
\* has finished, no session it opened is open
C28_SessionsClosed ==
    \A r \in Clients :
        LET frame == op[r]
        IN  /\ \A s \in DOMAIN frame.sessions : frame.sessions[s] <= 1
            /\ OpenSessions(frame) = ToSet(frame.calls)
            /\ Cardinality(OpenSessions(frame))
                  <= IF req[r].operation = "trending_skills" THEN 2 ELSE 1
            /\ resp[r].status # "running" =>
                  /\ frame.sessions # <<>>
                  /\ \A s \in DOMAIN frame.sessions : frame.sessions[s] = 1

\* a count query fails while two sessions are open, and both are closed
\* when get_trending_skills raises
C28_Witness ==
    /\ req[1].operation = "trending_skills"
    /\ resp[1].status = "raised"
    /\ op[1].plan[op[1].pc - 1] \in {"open", "query"}
    /\ op[1].pc > 3
    /\ op[1].sessions = <<1, 1>>

\* two sessions of one get_trending_skills are open
C28_CaseTwoOpen ==
    /\ req[2].operation = "trending_skills"
    /\ op[2].sessions = <<0, 1, 0>>
    /\ op[2].calls = <<1, 3>>

=============================================================================
